---------------------------- MODULE Spec2Model ----------------------------
(***************************************************************************)
(* Model of the duetto-detector scan pipeline:                             *)
(*   - the confidence scorer (_calculate_confidence),                      *)
(*   - the booking-link discovery cascade                                  *)
(*     (find_booking_links_with_fallback),                                 *)
(*   - the three-phase scan of one hotel (analyze_hotel),                  *)
(*   - the batch and job runners (run_batch, _run_job).                    *)
(* Each part has its own specification over the shared variables; the      *)
(* variables of the other parts stay at their idle values.                 *)
(***************************************************************************)
EXTENDS Integers, Sequences, FiniteSets, TLC

VARIABLES
    result,          \* the DuettoDetectionResult a scan builds / a scorer reads
    conf_input,      \* the result as it was handed to the scorer
    conf_returned,   \* levels returned by the calls of _calculate_confidence so far
    c_in,            \* find_booking_links_with_fallback: arguments, settings, loaded page
    c_status,        \* "idle", "running", "returned" or "raised"
    c_tier,          \* the tier the cascade is at (1..6)
    c_calls,         \* the tiers whose strategy was called, in call order
    c_outcome,       \* per tier: was it called, did it raise, the list it returned
    c_links,         \* the list find_booking_links_with_fallback returned
    pc,              \* analyze_hotel: where the scan is
    hotel,           \* analyze_hotel: the arguments (website_url, city)
    booking_url,     \* analyze_hotel: the local booking_url
    context,         \* the scan's browser context: "none", "open" or "closed"
    pages,           \* the pages of the context, oldest first: url, attached listeners
    monitor,         \* the scan's NetworkMonitor: all_requests, duetto_requests, console_logs
    nav_log,         \* the navigations the scan attempted, in order: phase, ok
    n_events,        \* request events emitted so far by the pages of the scan
    issued,          \* requests the pages of the scan have issued so far (history)
    mode,            \* which coordinator runs: "run_batch" or "_run_job" ("none": neither)
    n_hotels,        \* len(hotels) (hotel i of the model is hotels[i-1])
    limit,           \* the value the semaphore was created with
    sem,             \* the semaphore's free permits
    b_pc,            \* where the coordinator is
    t_pc,            \* where each scan_one task is
    t_out,           \* what each scan_one task ended with, as gather sees it
    scan_out,        \* what analyze_hotel gave for each hotel
    saved,           \* _run_job: the result row stored for each hotel
    db_job,          \* _run_job: the job row's status
    batch,           \* run_batch: the BatchResult returned
    session,         \* the shared BrowserSession: its driver, its browser, __aexit__ calls
    _tasks,          \* job_runner._tasks: job id -> the task registered for it
    created,         \* the tasks asyncio.create_task made in launch_job, oldest first
    f_in,            \* a function studied on its own: its argument
    f_out            \* ... and what its calls returned so far

confVars == <<conf_input, conf_returned>>
cascadeVars == <<c_in, c_status, c_tier, c_calls, c_outcome, c_links>>
scanVars == <<pc, hotel, booking_url, context, pages, monitor, nav_log, n_events, issued>>
runVars == <<mode, n_hotels, limit, sem, b_pc, t_pc, t_out, scan_out, saved, db_job, batch,
            session, _tasks, created>>
coordVars == <<mode, n_hotels, limit, sem, b_pc, t_pc, t_out, scan_out, saved, db_job, batch,
              session>>
fnVars == <<f_in, f_out>>
notRunVars == <<result, confVars, cascadeVars, scanVars, fnVars>>
vars == <<result, conf_input, conf_returned,
          c_in, c_status, c_tier, c_calls, c_outcome, c_links,
          pc, hotel, booking_url, context, pages, monitor, nav_log, n_events, issued,
          mode, n_hotels, limit, sem, b_pc, t_pc, t_out, scan_out, saved, db_job, batch,
          session, _tasks, created, f_in, f_out>>

(***************************************************************************)
(* Bounds of the model.                                                    *)
(***************************************************************************)
MaxEvidence == 10     \* longest gamechanger_evidence list drawn for the scorer
MaxErrors == 1        \* longest errors list drawn for the scorer
MaxPageElems == 2     \* elements (links, buttons, iframes) on the loaded page
MaxFailures == 1      \* page probes that raise during one in-page pass
MaxRequestEvents == 1 \* request events the pages of one scan emit
MaxHotels == 3        \* hotels in one batch or job
MaxLimit == 2         \* the concurrency limit
MaxCaptured == 3      \* listener calls on a monitor observed on its own
MaxCandidates == 2    \* candidates the external calls of a tier answer with
MaxLinks == 3         \* links given to rank_booking_links
MaxNetworkHits == 6   \* requests of one vendor among the captured requests
MaxPasses == 2        \* passes of _detect_on_page over the competitor entries
MaxParams == 2        \* query parameters of a URL given to _inject_dates_into_url
MaxPageFaults == 1    \* calls on the page that fail while its consent banner is handled
MaxTextLinks == 6     \* visible links that match one text pattern
MaxTextButtons == 6   \* visible buttons that match one text pattern
MaxLaunches == 4      \* calls of launch_job

SeqsUpTo(S, n) == UNION {[1..k -> S] : k \in 0..n}
Range(s) == {s[i] : i \in 1..Len(s)}

(***************************************************************************)
(* Strings of the program.  TLC cannot look inside a string, so every      *)
(* substring test of the code is a table over the strings the model uses.  *)
(***************************************************************************)
ErrNoWebsite == "Could not determine hotel website URL"
ErrHomepage == "Homepage load failed: <website_url>"
ErrBookingPage == "Booking page load failed: <booking_url>"
ErrNoBookingUrl == "No booking URL found"
ErrCspCaveat == "Pixel detected via CSP allowlist (pixel did not fire in headless mode)"
ErrScan == "Scan error: <exception>"

\* "CSP allowlist" in e
ContainsCspAllowlist(e) == e = ErrCspCaveat

EvWindowDuetto == "window.duetto"
EvInlineScript == "inline_script: ...duettoresearch..."

\* models.py: the field defaults of DuettoDetectionResult
DefaultResult ==
    [ website_url |-> "",
      booking_links_found |-> <<>>,
      booking_link_followed |-> <<>>,      \* <<>> is None, <<l>> is the link l
      booking_engine_url |-> "",
      duetto_pixel_detected |-> FALSE,
      pixel_requests |-> <<>>,
      gamechanger_detected |-> FALSE,
      gamechanger_evidence |-> <<>>,
      duetto_products |-> <<>>,
      confidence |-> "none",
      competitor_rms |-> <<>>,
      pages_analyzed |-> <<>>,
      errors |-> <<>>,
      scan_duration_set |-> FALSE ]

PerplexityLink ==
    [ text |-> "Perplexity-suggested booking link", href |-> "https://booking.example/be",
      link_type |-> "link", detection_method |-> "perplexity", opens_in |-> "new_tab" ]

(***************************************************************************)
(* Booking-link candidates (models.py BookingLinkInfo) and the strings the *)
(* code tests them with.                                                   *)
(***************************************************************************)
Link(text, href, link_type, method, opens_in) ==
    [ text |-> text, href |-> href, link_type |-> link_type,
      detection_method |-> method, opens_in |-> opens_in ]

HrefSynxis == "https://be.synxis.com/?chain=123"
HrefReservations == "https://reservations.hotel.example/"
HrefRelBooking == "/booking"
HrefWidget == "https://widget.cloudbeds.com/embed"
HrefAbout == "https://hotel.example/about"

\* URLs a page of the scan can show
UrlWebsite == "https://hotel.example"
UrlBlank == "about:blank"
UrlEngine == "https://be.synxis.com/rez.aspx?chain=123"

\* href.startswith("http")
StartsWithHttp(href) == href \in {HrefSynxis, HrefReservations, HrefWidget, HrefAbout,
                                  PerplexityLink.href, UrlWebsite, UrlEngine}

\* any(p in href.lower() for p in BOOKING_HREF_PATTERNS)   (booking_link_finder.py:31-43)
MatchesHrefPattern(href) == href \in {HrefSynxis, HrefReservations, HrefRelBooking, HrefWidget}

\* any(p in src.lower() for p in IFRAME_BOOKING_PATTERNS)   (booking_link_finder.py:46-50)
MatchesIframePattern(src) == src \in {HrefSynxis, HrefReservations, HrefRelBooking, HrefWidget}

AiLink == Link("AI-suggested booking link", HrefSynxis, "link", "ai_query", "new_tab")
SmartLink == Link("Book Now", HrefSynxis, "link", "firecrawl_llm", "new_tab")
SmartLink2 == Link("Reserve", HrefReservations, "link", "firecrawl_llm", "new_tab")
SmartLink3 == Link("Book Now", HrefReservations, "link", "firecrawl_llm", "new_tab")
WebSearchLink == Link("Booking Page", HrefReservations, "link", "web_search", "new_tab")
BrandCrawlLink == Link("Book Now", HrefSynxis, "link", "brand_crawl", "new_tab")
ChainLink == Link("Book Now (SynXis)", HrefSynxis, "link", "chain_pattern", "new_tab")

\* the non-empty lists each API tier can return
TierLinks(k) ==
    CASE k = 1 -> {<<AiLink>>}
      [] k = 2 -> {<<SmartLink>>, <<SmartLink2, SmartLink>>}
      [] k = 3 -> {<<WebSearchLink>>}
      [] k = 4 -> {<<BrandCrawlLink>>}
      [] k = 5 -> {<<ChainLink>>}

(***************************************************************************)
(* In-page heuristics: find_booking_links (booking_link_finder.py:53-182). *)
(* A page is a sequence of elements in DOM order.  pattern is the index of *)
(* the BOOKING_TEXT_PATTERNS entry the visible text matches (0: none).     *)
(***************************************************************************)
Elem(tag, text, href, target, pattern) ==
    [ tag |-> tag, text |-> text, href |-> href, target |-> target, pattern |-> pattern ]

ElemBookNowButton == Elem("button", "Book Now", "", "", 1)
ElemReserveLink == Elem("a", "Reserve", HrefRelBooking, "", 5)
ElemRatesLink == Elem("a", "Rates", HrefReservations, "_blank", 0)
ElemAboutLink == Elem("a", "About us", HrefAbout, "", 0)
ElemWidget == Elem("iframe", "", HrefWidget, "", 0)

PageElems == {ElemBookNowButton, ElemReserveLink, ElemRatesLink, ElemAboutLink, ElemWidget}
Pages == SeqsUpTo(PageElems, MaxPageElems)

TextPatterns == <<1, 5>>     \* the BOOKING_TEXT_PATTERNS entries the page elements match
PerPatternCap == 5           \* booking_link_finder.py:84

OpensIn(target) == IF target = "_blank" THEN "new_tab" ELSE "same_window"

\* what a locator selects: a[href], iframe, or tag:has-text(pattern)
Selects(sel, el) ==
    CASE sel.kind = "href" -> el.tag = "a" /\ el.href # ""
      [] sel.kind = "iframe" -> el.tag = "iframe"
      [] OTHER -> el.tag = sel.tag /\ el.pattern = sel.pattern

\* the indexes, in DOM order, of the elements of page the locator selects
RECURSIVE Matching(_, _, _)
Matching(page, sel, i) ==
    IF i > Len(page) THEN <<>>
    ELSE (IF Selects(sel, page[i]) THEN <<i>> ELSE <<>>) \o Matching(page, sel, i + 1)

Prefix(s, n) == SubSeq(s, 1, IF Len(s) < n THEN Len(s) ELSE n)

\* one locator of _find_by_text: the elements idx (already capped), each read
\* inside its own try; unreadable elements raise and are skipped (85-107)
RECURSIVE TextLoop(_, _, _, _, _)
TextLoop(page, idx, j, st, unreadable) ==
    IF j > Len(idx) THEN st
    ELSE LET el == page[idx[j]]
             key == IF el.href # "" THEN el.href ELSE el.text
         IN  IF idx[j] \in unreadable \/ key \in st.seen
             THEN TextLoop(page, idx, j + 1, st, unreadable)
             ELSE TextLoop(page, idx, j + 1,
                      [ results |-> Append(st.results,
                            Link(el.text, el.href,
                                 IF el.tag = "button" THEN "button" ELSE "link",
                                 "text_match", OpensIn(el.target))),
                        seen |-> st.seen \cup {key} ],
                      unreadable)

\* _find_by_text (70-107): for every pattern and every tag; a failing count()
\* skips that locator
RECURSIVE _find_by_text(_, _, _, _, _)
_find_by_text(page, n, st, unreadable, count_fails) ==
    \* n runs over the (pattern, tag) pairs: 1 = (p1,"a"), 2 = (p1,"button"), ...
    IF n > 2 * Len(TextPatterns) THEN st
    ELSE LET pat == TextPatterns[(n + 1) \div 2]
             tag == IF n % 2 = 1 THEN "a" ELSE "button"
             sel == [kind |-> "text", tag |-> tag, pattern |-> pat]
             idx == Prefix(Matching(page, sel, 1), PerPatternCap)
         IN  IF <<"text", n>> \in count_fails
             THEN _find_by_text(page, n + 1, st, unreadable, count_fails)
             ELSE _find_by_text(page, n + 1, TextLoop(page, idx, 1, st, unreadable),
                                unreadable, count_fails)

RECURSIVE HrefLoop(_, _, _, _, _)
HrefLoop(page, idx, j, st, unreadable) ==
    IF j > Len(idx) THEN st
    ELSE LET el == page[idx[j]]
         IN  IF idx[j] \in unreadable \/ ~MatchesHrefPattern(el.href) \/ el.href \in st.seen
             THEN HrefLoop(page, idx, j + 1, st, unreadable)
             ELSE HrefLoop(page, idx, j + 1,
                      [ results |-> Append(st.results,
                            Link(IF el.text # "" THEN el.text ELSE "Booking Link",
                                 el.href, "link", "href_pattern", OpensIn(el.target))),
                        seen |-> st.seen \cup {el.href} ],
                      unreadable)

\* _find_by_href (110-148)
_find_by_href(page, st, unreadable, count_fails) ==
    IF <<"href", 0>> \in count_fails THEN st
    ELSE HrefLoop(page, Prefix(Matching(page, [kind |-> "href"], 1), 200), 1, st, unreadable)

RECURSIVE IframeLoop(_, _, _, _, _)
IframeLoop(page, idx, j, st, unreadable) ==
    IF j > Len(idx) THEN st
    ELSE LET el == page[idx[j]]
         IN  IF idx[j] \in unreadable \/ ~MatchesIframePattern(el.href) \/ el.href \in st.seen
             THEN IframeLoop(page, idx, j + 1, st, unreadable)
             ELSE IframeLoop(page, idx, j + 1,
                      [ results |-> Append(st.results,
                            Link("Embedded Booking Widget", el.href, "iframe",
                                 "iframe_src", "iframe")),
                        seen |-> st.seen \cup {el.href} ],
                      unreadable)

\* _find_by_iframe (151-182); the iframe's href field holds its src
_find_by_iframe(page, st, unreadable, count_fails) ==
    IF <<"iframe", 0>> \in count_fails THEN st
    ELSE IframeLoop(page, Matching(page, [kind |-> "iframe"], 1), 1, st, unreadable)

\* find_booking_links (53-67)
find_booking_links(page, unreadable, count_fails) ==
    LET st0 == [results |-> <<>>, seen |-> {}]
        st1 == _find_by_text(page, 1, st0, unreadable, count_fails)
        st2 == _find_by_href(page, st1, unreadable, count_fails)
        st3 == _find_by_iframe(page, st2, unreadable, count_fails)
    IN  st3.results

CountProbes == ({"text"} \X (1..2 * Len(TextPatterns))) \cup {<<"href", 0>>, <<"iframe", 0>>}

\* the ways the probes of a page can raise: which elements cannot be read,
\* which locator counts fail
PageFailures(page) ==
    { f \in [unreadable : SUBSET (1..Len(page)), count_fails : SUBSET CountProbes] :
        Cardinality(f.unreadable) + Cardinality(f.count_fails) <= MaxFailures }

\* every list find_booking_links can return on page
InPageResults(page) ==
    { find_booking_links(page, f.unreadable, f.count_fails) : f \in PageFailures(page) }

\* the same, tabulated once for the pages of the model
InPageTable == [page \in Pages |-> InPageResults(page)]

(***************************************************************************)
(* find_booking_links_with_fallback (booking_link_finder.py:230-309)       *)
(***************************************************************************)
NotCalled == [called |-> FALSE, raised |-> FALSE, links |-> <<>>]
Tiers == 1..6

\* NetworkMonitor.__init__ (network_monitor.py:26-29)
NewMonitor == [all_requests |-> <<>>, duetto_requests |-> <<>>, console_logs |-> <<>>]

\* no scan in progress
ScanIdle ==
    /\ pc = "idle"
    /\ hotel = [website_url |-> "", city |-> ""]
    /\ booking_url = ""
    /\ context = "none"
    /\ pages = <<>>
    /\ monitor = NewMonitor
    /\ nav_log = <<>>
    /\ n_events = 0
    /\ issued = <<>>

\* no function under study
FnIdle ==
    /\ f_in = <<>>
    /\ f_out = <<>>

\* no batch and no job in progress
NoOutcome == [kind |-> "none"]
NoBatch == [total_hotels |-> 0, scanned |-> 0, duetto_pixel_count |-> 0,
            gamechanger_count |-> 0, competitor_rms_count |-> 0, results |-> <<>>]
\* BrowserSession.__init__ (browser_session.py:9-12): nothing started yet
NoSession == [playwright |-> "none", browser |-> "none", exits |-> 0]
RunIdle ==
    /\ mode = "none"
    /\ n_hotels = 0
    /\ limit = 0
    /\ sem = 0
    /\ b_pc = "idle"
    /\ t_pc = <<>>
    /\ t_out = <<>>
    /\ scan_out = <<>>
    /\ saved = <<>>
    /\ db_job = "pending"
    /\ batch = NoBatch
    /\ session = NoSession
    /\ _tasks = <<>>
    /\ created = <<>>

\* the url argument of the cascade: the hotel's website (scheme, host, path, query)
Website(host) == [scheme |-> "https", host |-> host, path |-> "/", query |-> <<>>]
NoWebsite == [scheme |-> "", host |-> "", path |-> "", query |-> <<>>]
CascadeWebsites == {Website("www.hotel.example"), Website("www.marriott.com")}

\* no cascade in progress
CascadeIdle ==
    /\ c_in = [city |-> "", hotel_name |-> "", anthropic_api_key |-> "",
               firecrawl_api_key |-> "", page |-> <<>>, url |-> NoWebsite]
    /\ c_status = "idle"
    /\ c_tier = 1
    /\ c_calls = <<>>
    /\ c_outcome = [k \in Tiers |-> NotCalled]
    /\ c_links = <<>>

\* faulty variant: one of the two keys is enough
HasEitherKey(in) == in.firecrawl_api_key # "" \/ in.anthropic_api_key # ""

\* has_apis = bool(settings.firecrawl_api_key and settings.anthropic_api_key)
has_apis(in) == in.firecrawl_api_key # "" /\ in.anthropic_api_key # ""

\* the guard in front of each tier
TierEnabled(k, in) ==
    CASE k = 1 -> in.city # "" /\ in.anthropic_api_key # ""
      [] k = 2 -> has_apis(in)
      [] k = 3 -> has_apis(in) /\ in.hotel_name # ""
      [] k = 4 -> has_apis(in) /\ in.hotel_name # ""
      [] k = 5 -> in.hotel_name # ""
      [] k = 6 -> TRUE

\* faulty variant: a tier's links never end the cascade
NoShortCircuit(k, raised, links) ==
    [status |-> "running", tier |-> k + 1]

\* faulty variant: a tier's exception leaves the function
ExceptionPropagates(k, raised, links) ==
    IF raised THEN [status |-> "raised", tier |-> k]
    ELSE IF links # <<>> THEN [status |-> "returned", tier |-> k]
    ELSE [status |-> "running", tier |-> k + 1]

\* what the cascade does with the outcome of tier k: where it goes next
AfterTier(k, raised, links) ==
    IF ~raised /\ links # <<>> THEN [status |-> "returned", tier |-> k]   \* return <tier>_links
    ELSE [status |-> "running", tier |-> k + 1]     \* empty, or except Exception: warning

\* tiers 1..5: the guard, the call inside try/except, the short-circuit
ApiTier(k) ==
    /\ c_status = "running"
    /\ c_tier = k
    /\ \/ /\ ~TierEnabled(k, c_in)
          /\ c_tier' = k + 1
          /\ UNCHANGED <<c_status, c_calls, c_outcome, c_links>>
       \/ /\ TierEnabled(k, c_in)
          /\ \E raised \in BOOLEAN, links \in TierLinks(k) \cup {<<>>} :
                /\ raised => links = <<>>
                /\ LET next == AfterTier(k, raised, links)
                   IN  /\ c_status' = next.status
                       /\ c_tier' = next.tier
                       /\ c_links' = IF next.status = "returned" THEN links ELSE c_links
                /\ c_calls' = Append(c_calls, k)
                /\ c_outcome' = [c_outcome EXCEPT ![k] =
                                    [called |-> TRUE, raised |-> raised, links |-> links]]
    /\ UNCHANGED <<c_in, result, confVars, scanVars, runVars, fnVars>>

AiQueryTier == ApiTier(1)
SmartScrapeTier == ApiTier(2)
WebSearchTier == ApiTier(3)
BrandCrawlTier == ApiTier(4)
ChainPatternTier == ApiTier(5)

\* tier 6: return await find_booking_links(page)
InPageTier ==
    /\ c_status = "running"
    /\ c_tier = 6
    /\ \E links \in InPageTable[c_in.page] :
          /\ c_links' = links
          /\ c_outcome' = [c_outcome EXCEPT ![6] =
                              [called |-> TRUE, raised |-> FALSE, links |-> links]]
    /\ c_calls' = Append(c_calls, 6)
    /\ c_status' = "returned"
    /\ UNCHANGED <<c_in, c_tier, result, confVars, scanVars, runVars, fnVars>>

InitCascade ==
    /\ c_in \in [city : {"", "Springfield"}, hotel_name : {"", "Test Inn"},
                 anthropic_api_key : {"", "sk-ant"}, firecrawl_api_key : {"", "fc-key"},
                 page : Pages, url : CascadeWebsites]
    /\ c_status = "running"
    /\ c_tier = 1
    /\ c_calls = <<>>
    /\ c_outcome = [k \in Tiers |-> NotCalled]
    /\ c_links = <<>>
    /\ result = DefaultResult
    /\ conf_input = DefaultResult
    /\ conf_returned = <<>>
    /\ ScanIdle
    /\ RunIdle
    /\ FnIdle

NextCascade ==
    \/ AiQueryTier
    \/ SmartScrapeTier
    \/ WebSearchTier
    \/ BrandCrawlTier
    \/ ChainPatternTier
    \/ InPageTier

SpecCascade == InitCascade /\ [][NextCascade]_vars

(***************************************************************************)
(* rank_booking_links (booking_link_finder.py:185-227)                     *)
(***************************************************************************)
\* the substring tests on link.text.lower()
HasBookNow(text) == text \in {"Book Now", "Book Now (SynXis)"}
HasBook(text) == text \in {"Book Now", "Book Now (SynXis)", "AI-suggested booking link",
                           "Booking Page", "Booking Link", "Embedded Booking Widget",
                           "Perplexity-suggested booking link"}
HasReserve(text) == text \in {"Reserve"}
HasCheckAvail(text) == text \in {"Check availability"}

\* the inner function score(link) of rank_booking_links (188-225)
link_score(link) ==
      (CASE link.detection_method \in {"text_match", "firecrawl_llm"} -> 100
         [] link.detection_method = "ai_query" -> 95
         [] link.detection_method = "web_search" -> 90
         [] link.detection_method = "brand_crawl" -> 85
         [] link.detection_method = "chain_pattern" -> 70
         [] link.detection_method = "href_pattern" -> 50
         [] link.detection_method = "iframe_src" -> 25
         [] OTHER -> 0)
    + (IF HasBookNow(link.text) THEN 50
       ELSE IF HasBook(link.text) THEN 30
       ELSE IF HasReserve(link.text) THEN 30
       ELSE IF HasCheckAvail(link.text) THEN 20
       ELSE 0)
    + (IF link.opens_in = "new_tab" THEN 10 ELSE 0)
    + (IF link.href # "" /\ link.href # "#" THEN 10 ELSE 0)

\* faulty variant: x is placed ahead of the elements with its own score
InsertAheadOfEquals(sorted, x) ==
    LET behind == {i \in 1..Len(sorted) : link_score(sorted[i]) > link_score(x)}
        n == Cardinality(behind)
    IN  SubSeq(sorted, 1, n) \o <<x>> \o SubSeq(sorted, n + 1, Len(sorted))

\* x placed behind every element of the sorted list whose score is not lower
InsertByScore(sorted, x) ==
    LET behind == {i \in 1..Len(sorted) : link_score(sorted[i]) >= link_score(x)}
        n == Cardinality(behind)
    IN  SubSeq(sorted, 1, n) \o <<x>> \o SubSeq(sorted, n + 1, Len(sorted))

\* sorted(links, key=score, reverse=True): stable, best first
RECURSIVE SortFrom(_, _, _)
SortFrom(links, i, sorted) ==
    IF i > Len(links) THEN sorted
    ELSE SortFrom(links, i + 1, InsertByScore(sorted, links[i]))

rank_booking_links(links) == SortFrom(links, 1, <<>>)

(***************************************************************************)
(* NetworkMonitor (network_monitor.py)                                     *)
(***************************************************************************)
\* A URL is the sequence of the pieces it is written with, cut so that no
\* pattern below begins or ends inside a piece; "x in url" is then "the
\* pieces of x occur in a row in url".
UrlHotel == <<"https://", "hotel.example", "/">>
UrlPixel == <<"https://", "capture.", "duetto", "research.com", "/track", "?x=1">>
UrlGcApp == <<"https://", "gc.", "duetto", "research.com", "/main.js">>
UrlGcBare == <<"https://", "gamechanger.", "duetto", ".com", "/main.js">>
UrlPixelUpper == <<"https://", "Capture.", "DUETTO", "research.com", "/pixel">>
UrlGcCloud == <<"https://", "cdn.", "duetto", "cloud.com", "/gamechanger", "/w.js">>
UrlDuettoSite == <<"https://", "www.", "duetto", "research.com", "/about">>
RequestUrls == {UrlHotel, UrlPixel, UrlGcApp}
MonitorUrls == {UrlHotel, UrlPixel, UrlGcApp, UrlGcBare, UrlPixelUpper, UrlGcCloud,
                UrlDuettoSite}

\* str.lower() on one piece
LowerPiece(piece) ==
    CASE piece = "Capture." -> "capture."
      [] piece = "DUETTO" -> "duetto"
      [] OTHER -> piece

\* url.lower()
Lower(url) == [i \in 1..Len(url) |-> LowerPiece(url[i])]

\* p in s
Contains(s, p) ==
    \E i \in 1..(Len(s) - Len(p) + 1) : SubSeq(s, i, i + Len(p) - 1) = p

DUETTO_PIXEL_PATTERNS ==
    { <<"capture.", "duetto", "research.com">>,
      <<"duetto", "research.com", "/capture">>,
      <<"duetto", "research.com", "/pixel">>,
      <<"duetto", "research.com", "/track">> }

DUETTO_DOMAIN_PATTERNS ==
    { <<"duetto", "research.com">>, <<"duetto", "cloud.com">> }

GAMECHANGER_PATTERNS ==
    { <<"gamechanger.", "duetto">>,
      <<"gc.", "duetto", "research.com">>,
      <<"app.", "duetto", "research.com">>,
      <<"duetto", "cloud.com", "/gamechanger">> }

\* faulty variant: only the cloud domain passes the filter
MatchesCloudOnly(url) == Contains(Lower(url), <<"duetto", "cloud.com">>)

\* any(p in url.lower() for p in DUETTO_DOMAIN_PATTERNS)
MatchesDuettoDomain(url) == \E p \in DUETTO_DOMAIN_PATTERNS : Contains(Lower(url), p)
\* any(p in url.lower() for p in DUETTO_PIXEL_PATTERNS)
MatchesPixelPattern(url) == \E p \in DUETTO_PIXEL_PATTERNS : Contains(Lower(url), p)
\* any(p in url.lower() for p in GAMECHANGER_PATTERNS)
MatchesGamechangerPattern(url) == \E p \in GAMECHANGER_PATTERNS : Contains(Lower(url), p)

\* faulty variant: the handler keeps the latest request only
OnRequestKeepsLast(m, url) ==
    [m EXCEPT !.all_requests = <<url>>,
              !.duetto_requests = IF MatchesDuettoDomain(url) THEN <<url>> ELSE <<>>]

\* NetworkMonitor._on_request (37-48)
_on_request(m, url) ==
    [m EXCEPT !.all_requests = Append(@, url),
              !.duetto_requests = IF MatchesDuettoDomain(url) THEN Append(@, url) ELSE @]

\* a request seen by a page on which attach() registered the listener n times
RECURSIVE Deliver(_, _, _)
Deliver(m, url, n) == IF n = 0 THEN m ELSE Deliver(_on_request(m, url), url, n - 1)

duetto_pixel_detected(m) ==
    \E i \in 1..Len(m.duetto_requests) : MatchesPixelPattern(m.duetto_requests[i])

gamechanger_in_network(m) ==
    \E i \in 1..Len(m.duetto_requests) : MatchesGamechangerPattern(m.duetto_requests[i])

pixel_requests(m) == SelectSeq(m.duetto_requests, MatchesPixelPattern)

\* NetworkMonitor._on_console (50-51)
_on_console(m, text) == [m EXCEPT !.console_logs = Append(@, text)]

ConsoleTexts == {"duetto ready", "Failed to load resource"}

\* the monitor on its own: the listeners are called, in any order, with any
\* of the requests and console messages
RequestEvent ==
    /\ pc = "monitoring"
    /\ Len(monitor.all_requests) + Len(monitor.console_logs) < MaxCaptured
    /\ \E url \in MonitorUrls : monitor' = _on_request(monitor, url)
    /\ UNCHANGED <<result, pc, hotel, booking_url, context, pages, nav_log, n_events, issued,
                   confVars, cascadeVars, runVars, fnVars>>

ConsoleEvent ==
    /\ pc = "monitoring"
    /\ Len(monitor.all_requests) + Len(monitor.console_logs) < MaxCaptured
    /\ \E text \in ConsoleTexts : monitor' = _on_console(monitor, text)
    /\ UNCHANGED <<result, pc, hotel, booking_url, context, pages, nav_log, n_events, issued,
                   confVars, cascadeVars, runVars, fnVars>>

InitMonitor ==
    /\ pc = "monitoring"
    /\ hotel = [website_url |-> "", city |-> ""]
    /\ booking_url = ""
    /\ context = "none"
    /\ pages = <<>>
    /\ monitor = NewMonitor
    /\ nav_log = <<>>
    /\ n_events = 0
    /\ issued = <<>>
    /\ result = DefaultResult
    /\ conf_input = DefaultResult
    /\ conf_returned = <<>>
    /\ CascadeIdle
    /\ RunIdle
    /\ FnIdle

NextMonitor == RequestEvent \/ ConsoleEvent

SpecMonitor == InitMonitor /\ [][NextMonitor]_vars

(***************************************************************************)
(* analyze_hotel (duetto_analyzer.py:125-320)                              *)
(***************************************************************************)
\* what one _detect_on_page pass can find on a page (a probe that raises
\* finds nothing): DOM signals, source references, competitor vendors
Findings ==
    [ gc_evidence : {<<>>, <<EvWindowDuetto>>},
      source_evidence : {<<>>, <<EvInlineScript>>},
      new_competitors : {<<>>, <<"IDeaS">>} ]

\* the vendors of new that result does not list yet, in order (371-376)
RECURSIVE NewVendors(_, _, _)
NewVendors(existing, new, i) ==
    IF i > Len(new) THEN <<>>
    ELSE IF new[i] \in existing THEN NewVendors(existing, new, i + 1)
    ELSE <<new[i]>> \o NewVendors(existing \cup {new[i]}, new, i + 1)

\* _detect_on_page (346-378)
_detect_on_page(r, f) ==
    [r EXCEPT !.gamechanger_detected = IF f.gc_evidence # <<>> THEN TRUE ELSE @,
              !.gamechanger_evidence = @ \o f.gc_evidence \o f.source_evidence,
              !.competitor_rms = @ \o NewVendors(Range(@), f.new_competitors, 1)]

\* except Exception as e: result.errors.append(f"Scan error: {e}")   (314-315)
ScanError(r) == [r EXCEPT !.errors = Append(@, ErrScan)]

Nav(phase, ok) == [phase |-> phase, ok |-> ok]

\* the request of a page the site opened for the document it shows
UrlEngineDocument == <<"https://", "be.synxis.com", "/rez.aspx?chain=123">>

\* a page opened after context.on("page", ...) was registered (180) gets the
\* listener from that handler and again from the explicit monitor.attach
NewPage(url) == [url |-> url, listeners |-> 2]

AnalyzeHotel ==
    /\ pc = "start"
    \* Step 0: with a city, lookup_hotel_urls is called; it reads
    \* settings.perplexity_api_key (perplexity_lookup.py:119), which Settings
    \* (config.py:4-14) does not declare, so it raises and the except at
    \* 156-157 leaves website_url and booking_url as they were
    /\ booking_url' = ""
    /\ \/ /\ hotel.website_url = ""
          /\ result' = [DefaultResult EXCEPT !.errors = <<ErrNoWebsite>>,
                                             !.scan_duration_set = TRUE]
          /\ pc' = "returned"
       \/ /\ hotel.website_url # ""
          /\ result' = [DefaultResult EXCEPT !.website_url = hotel.website_url]
          /\ pc' = "new_context"
    /\ UNCHANGED <<hotel, context, pages, monitor, nav_log, n_events, issued, confVars, cascadeVars, runVars, fnVars>>

\* context = await browser_session.new_context()   (172, outside the try)
NewContext ==
    /\ pc = "new_context"
    /\ \/ /\ context' = "open"
          /\ pc' = "new_page"
       \/ /\ context' = context
          /\ pc' = "raised"
    /\ UNCHANGED <<result, hotel, booking_url, pages, monitor, nav_log, n_events, issued,
                   confVars, cascadeVars, runVars, fnVars>>

\* page = await context.new_page(); monitor.attach(page); context.on("page", ...)
FirstPage ==
    /\ pc = "new_page"
    /\ \/ /\ pages' = <<[url |-> UrlBlank, listeners |-> 1]>>
          /\ pc' = "phase1"
          /\ UNCHANGED result
       \/ /\ result' = ScanError(result)
          /\ pc' = "close"
          /\ UNCHANGED pages
    /\ UNCHANGED <<hotel, booking_url, context, monitor, nav_log, n_events, issued,
                   confVars, cascadeVars, runVars, fnVars>>

\* Phase 1 (184-188, 206-207)
NavigateHomepage ==
    /\ pc = "phase1"
    /\ \/ \E f \in Findings :
             /\ nav_log' = Append(nav_log, Nav("homepage", TRUE))
             /\ pages' = [pages EXCEPT ![1].url = hotel.website_url]
             /\ result' = _detect_on_page(
                              [result EXCEPT !.pages_analyzed = Append(@, "homepage")], f)
             /\ pc' = IF booking_url = "" THEN "discover" ELSE "phase2"
       \/ /\ nav_log' = Append(nav_log, Nav("homepage", FALSE))
          /\ result' = [result EXCEPT !.errors = Append(@, ErrHomepage)]
          /\ pc' = "phase2"
          /\ UNCHANGED pages
    /\ UNCHANGED <<hotel, booking_url, context, monitor, n_events, issued, confVars, cascadeVars, runVars, fnVars>>

\* lists find_booking_links_with_fallback hands to the scan
TextButton == Link("Book Now", "", "button", "text_match", "same_window")
TextLink == Link("Reserve", HrefRelBooking, "link", "text_match", "same_window")
HrefLink == Link("Rates", HrefReservations, "link", "href_pattern", "new_tab")
IframeRel == Link("Embedded Booking Widget", HrefRelBooking, "iframe", "iframe_src", "iframe")
Discoveries ==
    { <<>>, <<AiLink>>, <<SmartLink2, SmartLink>>, <<TextButton>>, <<TextLink>>,
      <<IframeRel>>, <<TextButton, HrefLink>>, <<HrefLink, IframeRel>>,
      <<SmartLink2, SmartLink, SmartLink3>> }

\* faulty variant: the first link discovered is followed, unranked
DiscoverFollowsFirst ==
    /\ pc = "discover"
    /\ \E booking_links \in Discoveries :
          IF booking_links = <<>>
          THEN /\ result' = [result EXCEPT !.booking_links_found = booking_links]
               /\ pc' = "phase2"
               /\ UNCHANGED booking_url
          ELSE LET best == booking_links[1]
               IN  /\ result' = [result EXCEPT !.booking_links_found = booking_links,
                                               !.booking_link_followed = <<best>>]
                   /\ IF best.href # "" /\ StartsWithHttp(best.href)
                      THEN booking_url' = best.href /\ pc' = "phase2"
                      ELSE booking_url' = booking_url /\ pc' = "follow"
    /\ UNCHANGED <<hotel, context, pages, monitor, nav_log, n_events, issued, confVars, cascadeVars, runVars, fnVars>>

\* 190-205: discovery, ranking, the choice of the link to follow
Discover ==
    /\ pc = "discover"
    /\ \E booking_links \in Discoveries :
          IF booking_links = <<>>
          THEN /\ result' = [result EXCEPT !.booking_links_found = booking_links]
               /\ pc' = "phase2"
               /\ UNCHANGED booking_url
          ELSE LET best == rank_booking_links(booking_links)[1]
               IN  /\ result' = [result EXCEPT !.booking_links_found = booking_links,
                                               !.booking_link_followed = <<best>>]
                   /\ IF best.href # "" /\ StartsWithHttp(best.href)
                      THEN booking_url' = best.href /\ pc' = "phase2"
                      ELSE booking_url' = booking_url /\ pc' = "follow"
    /\ UNCHANGED <<hotel, context, pages, monitor, nav_log, n_events, issued, confVars, cascadeVars, runVars, fnVars>>

\* _get_active_page (381-386)
_get_active_page(ps) == ps[Len(ps)]

\* 203-205: _follow_booking_link for a link without an absolute URL
\* (389-461, with _try_submit_modal_booking_form 464-585), then
\* booking_url = active.url
FollowBookingLink ==
    /\ pc = "follow"
    /\ LET link == result.booking_link_followed[1]
       IN  \/ \* iframe widget: settle only (397-399); click failed (430-433);
              \* nothing opened and the page stayed where it was
              /\ pages' = pages
              /\ nav_log' = nav_log
              /\ booking_url' = _get_active_page(pages).url
              /\ pc' = "phase2"
              /\ UNCHANGED <<result, issued>>
           \/ \* the click navigated the page itself (437-442, 574-581)
              /\ link.opens_in # "iframe"
              /\ pages' = [pages EXCEPT ![1].url = UrlEngine]
              /\ nav_log' = Append(nav_log, Nav("follow", TRUE))
              /\ booking_url' = UrlEngine
              /\ pc' = "phase2"
              /\ UNCHANGED <<result, issued>>
           \/ \* the scan opened a page for the form's URL (532-543): the
              \* monitor is attached before the goto, which may fail
              /\ link.opens_in # "iframe"
              /\ \E url \in {UrlEngine, UrlBlank} :
                    /\ pages' = Append(pages, NewPage(url))
                    /\ nav_log' = Append(nav_log, Nav("follow", url # UrlBlank))
                    /\ booking_url' = url
              /\ pc' = "phase2"
              /\ UNCHANGED <<result, issued>>
           \/ \* the site opened a page on the click of the submit button
              \* (560-571) or on the repeated click of a new-tab link
              \* (448-459): the page has requested its document by the time
              \* the "page" event and expect_page hand it to the scan, and
              \* only then is the monitor attached (180, 453, 563)
              /\ link.opens_in # "iframe"
              /\ pages' = Append(pages, NewPage(UrlEngine))
              /\ issued' = Append(issued, UrlEngineDocument)
              /\ nav_log' = Append(nav_log, Nav("follow", TRUE))
              /\ booking_url' = UrlEngine
              /\ pc' = "phase2"
              /\ UNCHANGED result
           \/ \* an unguarded await raised (398, 435, 473, 511)
              /\ result' = ScanError(result)
              /\ pc' = "close"
              /\ UNCHANGED <<pages, nav_log, booking_url, issued>>
    /\ UNCHANGED <<hotel, context, monitor, n_events, confVars, cascadeVars, runVars, fnVars>>

\* 210-221, 242-244
BookingLanding ==
    /\ pc = "phase2"
    /\ IF booking_url # "" /\ StartsWithHttp(booking_url)
       THEN LET followed == IF result.booking_link_followed # <<>>
                            THEN result.booking_link_followed
                            ELSE <<[PerplexityLink EXCEPT !.href = booking_url]>>
            IN  \/ /\ result' = [result EXCEPT !.booking_link_followed = followed]
                   /\ pages' = Append(pages, NewPage(UrlBlank))
                   /\ pc' = "phase2_nav"
                \/ /\ result' = ScanError([result EXCEPT !.booking_link_followed = followed])
                   /\ pc' = "close"
                   /\ UNCHANGED pages
       ELSE /\ result' = IF booking_url = ""
                         THEN [result EXCEPT !.errors = Append(@, ErrNoBookingUrl)]
                         ELSE result
            /\ pc' = "finalize"
            /\ UNCHANGED pages
    /\ UNCHANGED <<hotel, booking_url, context, monitor, nav_log, n_events, issued,
                   confVars, cascadeVars, runVars, fnVars>>

\* faulty variant: the booking-landing navigation is taken again
BookingRepeats(ok) == IF ok THEN "phase2_nav" ELSE "finalize"

\* where the scan goes after the booking-landing navigation (223-241):
\* Phase 3 only inside the successful branch of Phase 2
AfterBooking(ok) == IF ok THEN "phase3_nav" ELSE "finalize"

\* 223-226, 240-241
NavigateBooking ==
    /\ pc = "phase2_nav"
    /\ \/ \E f \in Findings :
             /\ nav_log' = Append(nav_log, Nav("booking_landing", TRUE))
             /\ pages' = [pages EXCEPT ![Len(pages)].url = booking_url]
             /\ result' = _detect_on_page(
                              [result EXCEPT !.pages_analyzed = Append(@, "booking_landing")], f)
             /\ pc' = AfterBooking(TRUE)
       \/ /\ nav_log' = Append(nav_log, Nav("booking_landing", FALSE))
          /\ result' = [result EXCEPT !.errors = Append(@, ErrBookingPage)]
          /\ pc' = AfterBooking(FALSE)
          /\ UNCHANGED pages
    /\ UNCHANGED <<hotel, booking_url, context, monitor, n_events, issued, confVars, cascadeVars, runVars, fnVars>>

\* 229-239
NavigateDated ==
    /\ pc = "phase3_nav"
    /\ \/ \E f \in Findings :
             /\ nav_log' = Append(nav_log, Nav("booking_with_dates", TRUE))
             /\ result' = [_detect_on_page(
                              [result EXCEPT !.pages_analyzed = Append(@, "booking_with_dates")], f)
                           EXCEPT !.booking_engine_url = pages[Len(pages)].url]
             /\ pc' = "finalize"
       \/ \* navigated, then booking_page.wait_for_timeout raised (235)
          /\ nav_log' = Append(nav_log, Nav("booking_with_dates", TRUE))
          /\ result' = ScanError(result)
          /\ pc' = "close"
       \/ /\ nav_log' = Append(nav_log, Nav("booking_with_dates", FALSE))
          /\ result' = [result EXCEPT !.booking_engine_url = pages[Len(pages)].url]
          /\ pc' = "finalize"
    /\ UNCHANGED <<hotel, booking_url, context, pages, monitor, n_events, issued,
                   confVars, cascadeVars, runVars, fnVars>>

\* 247-253: the network-level fields are copied, then monitor.duetto_in_csp is
\* read.  NetworkMonitor (network_monitor.py:5-91) has no attribute
\* duetto_in_csp, so the read raises AttributeError and the except at 314
\* takes over: lines 254-312 never run
Finalize ==
    /\ pc = "finalize"
    /\ result' = ScanError(
           [result EXCEPT !.duetto_pixel_detected = duetto_pixel_detected(monitor),
                          !.pixel_requests = pixel_requests(monitor),
                          !.gamechanger_detected =
                              IF ~@ THEN gamechanger_in_network(monitor) ELSE @])
    /\ pc' = "close"
    /\ UNCHANGED <<hotel, booking_url, context, pages, monitor, nav_log, n_events, issued,
                   confVars, cascadeVars, runVars, fnVars>>

\* finally: await context.close(); result.scan_duration_seconds = ...; return result
CloseContext ==
    /\ pc = "close"
    /\ \/ /\ context' = "closed"
          /\ result' = [result EXCEPT !.scan_duration_set = TRUE]
          /\ pc' = "returned"
       \/ /\ pc' = "raised"
          /\ UNCHANGED <<context, result>>
    /\ UNCHANGED <<hotel, booking_url, pages, monitor, nav_log, n_events, issued,
                   confVars, cascadeVars, runVars, fnVars>>

\* a page of the scan issues a request: every registered listener records it
OnRequest ==
    /\ context = "open"
    /\ pc \notin {"close", "returned", "raised"}
    /\ n_events < MaxRequestEvents
    /\ \E i \in 1..Len(pages), url \in RequestUrls :
          /\ monitor' = Deliver(monitor, url, pages[i].listeners)
          /\ issued' = Append(issued, url)
    /\ n_events' = n_events + 1
    /\ UNCHANGED <<result, pc, hotel, booking_url, context, pages, nav_log,
                   confVars, cascadeVars, runVars, fnVars>>

InitScan ==
    /\ pc = "start"
    /\ hotel \in [website_url : {"", UrlWebsite}, city : {"", "Springfield"}]
    /\ booking_url = ""
    /\ context = "none"
    /\ pages = <<>>
    /\ monitor = NewMonitor
    /\ nav_log = <<>>
    /\ n_events = 0
    /\ issued = <<>>
    /\ result = DefaultResult
    /\ conf_input = DefaultResult
    /\ conf_returned = <<>>
    /\ CascadeIdle
    /\ RunIdle
    /\ FnIdle

NextScan ==
    \/ AnalyzeHotel
    \/ NewContext
    \/ FirstPage
    \/ NavigateHomepage
    \/ Discover
    \/ FollowBookingLink
    \/ BookingLanding
    \/ NavigateBooking
    \/ NavigateDated
    \/ Finalize
    \/ CloseContext
    \/ OnRequest

SpecScan == InitScan /\ [][NextScan]_vars

(***************************************************************************)
(* _calculate_confidence (duetto_analyzer.py:774-802)                      *)
(***************************************************************************)
\* faulty variant: no cap for the CSP-only caveat
ConfidenceNoCap(r) ==
    LET score == (IF r.duetto_pixel_detected THEN 3 ELSE 0)
               + (IF r.gamechanger_detected THEN 3 ELSE 0)
               + Len(r.gamechanger_evidence)
               + (IF r.booking_link_followed # <<>> THEN 1 ELSE 0)
               - (IF r.errors # <<>> THEN 1 ELSE 0)
    IN  IF score >= 4 THEN "high"
        ELSE IF score >= 2 THEN "medium"
        ELSE IF score >= 1 THEN "low"
        ELSE "none"

\* faulty variant: no deduction for recorded errors
ConfidenceNoPenalty(r) ==
    LET csp_only == \E i \in 1..Len(r.errors) : ContainsCspAllowlist(r.errors[i])
        score == (IF r.duetto_pixel_detected THEN (IF csp_only THEN 1 ELSE 3) ELSE 0)
               + (IF r.gamechanger_detected THEN 3 ELSE 0)
               + Len(r.gamechanger_evidence)
               + (IF r.booking_link_followed # <<>> THEN 1 ELSE 0)
    IN  IF csp_only THEN (IF score >= 2 THEN "medium" ELSE "low")
        ELSE IF score >= 4 THEN "high"
        ELSE IF score >= 2 THEN "medium"
        ELSE IF score >= 1 THEN "low"
        ELSE "none"

_calculate_confidence(r) ==
    LET csp_only == \E i \in 1..Len(r.errors) : ContainsCspAllowlist(r.errors[i])
        score == (IF r.duetto_pixel_detected THEN (IF csp_only THEN 1 ELSE 3) ELSE 0)
               + (IF r.gamechanger_detected THEN 3 ELSE 0)
               + (IF r.gamechanger_evidence # <<>> THEN Len(r.gamechanger_evidence) ELSE 0)
               + (IF r.booking_link_followed # <<>> THEN 1 ELSE 0)
               - (IF r.errors # <<>> THEN 1 ELSE 0)
    IN  IF csp_only THEN (IF score >= 2 THEN "medium" ELSE "low")
        ELSE IF score >= 4 THEN "high"
        ELSE IF score >= 2 THEN "medium"
        ELSE IF score >= 1 THEN "low"
        ELSE "none"

(***************************************************************************)
(* The scorer on its own: a result is drawn, then scored (twice).          *)
(***************************************************************************)
ScorerInputs ==
    { [DefaultResult EXCEPT
          !.website_url = "https://hotel.example",
          !.duetto_pixel_detected = p,
          !.gamechanger_detected = g,
          !.gamechanger_evidence = ev,
          !.booking_link_followed = f,
          !.errors = er] :
        p \in BOOLEAN, g \in BOOLEAN,
        ev \in SeqsUpTo({EvWindowDuetto, EvInlineScript}, MaxEvidence),
        f \in {<<>>, <<PerplexityLink>>},
        er \in SeqsUpTo({ErrNoBookingUrl, ErrCspCaveat}, MaxErrors) }

InitConfidence ==
    /\ result \in ScorerInputs
    \* analyze_hotel records the caveat only together with the pixel flag (257-262)
    /\ (\E i \in 1..Len(result.errors) : ContainsCspAllowlist(result.errors[i]))
          => result.duetto_pixel_detected
    /\ conf_input = result
    /\ conf_returned = <<>>
    /\ CascadeIdle
    /\ ScanIdle
    /\ RunIdle
    /\ FnIdle

\* result.confidence = _calculate_confidence(result)   (duetto_analyzer.py:284)
CalculateConfidence ==
    /\ Len(conf_returned) < 2
    /\ LET level == _calculate_confidence(result)
       IN  /\ result' = [result EXCEPT !.confidence = level]
           /\ conf_returned' = Append(conf_returned, level)
           /\ UNCHANGED <<conf_input, cascadeVars, scanVars, runVars, fnVars>>

NextConfidence == CalculateConfidence

SpecConfidence == InitConfidence /\ [][NextConfidence]_vars

(***************************************************************************)
(* run_batch (pipeline/batch_runner.py:12-67) and _run_job                 *)
(* (job_runner.py:29-81): scan_one tasks under one semaphore and one       *)
(* browser session.                                                        *)
(***************************************************************************)
Hotels == 1..n_hotels

ExcScan == "Target page, context or browser has been closed"
ExcDb == "database is locked"

Exception(text) == [kind |-> "exception", text |-> text]

\* a DuettoDetectionResult as the coordinators look at it
Record(i, pixel, gc, errors) ==
    [kind |-> "result", hotel |-> i, duetto_pixel_detected |-> pixel,
     gamechanger_detected |-> gc, competitor_rms |-> <<>>, errors |-> errors]

\* ... with the competitor vendors detect_competitor_rms found for it
WithCompetitors(r, found) == [r EXCEPT !.competitor_rms = found]

\* what analyze_hotel can return for hotel i
ScanResults(i) ==
    {Record(i, FALSE, FALSE, <<>>), Record(i, TRUE, FALSE, <<>>), Record(i, FALSE, TRUE, <<>>),
     WithCompetitors(Record(i, FALSE, FALSE, <<>>), <<"IDeaS">>)}

\* DuettoDetectionResult(hotel_name=..., website_url=..., errors=[str(e)])
ErrorRecord(i, text) == Record(i, FALSE, FALSE, <<text>>)

\* max_concurrent or settings.max_concurrent_scans   (batch_runner.py:19)
EffectiveLimit(max_concurrent, configured) ==
    IF max_concurrent # 0 THEN max_concurrent ELSE configured

\* faulty variant: a semaphore that never blocks
AlwaysAcquire(value) == TRUE

\* asyncio.Semaphore.acquire proceeds only while a permit is free
CanAcquire(value) == value > 0

IsResult(o) == o.kind # "exception"

\* faulty variant: gathered exceptions are dropped
SkipExceptions(results) == SelectSeq(results, IsResult)

\* the loop over the gathered results (batch_runner.py:46-55)
final_results(results) ==
    [i \in 1..Len(results) |->
        IF results[i].kind = "exception" THEN ErrorRecord(i, results[i].text)
        ELSE results[i]]

\* batch_runner.py:57-67
BatchResult(n, final) ==
    [ total_hotels |-> n,
      scanned |-> Len(final),
      duetto_pixel_count |->
          Cardinality({i \in 1..Len(final) : final[i].duetto_pixel_detected}),
      gamechanger_count |->
          Cardinality({i \in 1..Len(final) : final[i].gamechanger_detected}),
      competitor_rms_count |-> 0,     \* not passed: the default of models.py:70
      results |-> final ]

NoRow == [status |-> "pending", result_json |-> NoOutcome]

\* async with semaphore: entered
Acquire(i) ==
    /\ b_pc = "gathering"
    /\ t_pc[i] = "waiting"
    /\ CanAcquire(sem)
    /\ sem' = sem - 1
    /\ t_pc' = [t_pc EXCEPT ![i] = IF mode = "_run_job" THEN "updating" ELSE "analyzing"]
    /\ UNCHANGED <<mode, n_hotels, limit, b_pc, t_out, scan_out, saved, db_job, batch, session, _tasks, created>>
    /\ UNCHANGED notRunVars

\* _run_job: await db.update_hotel_status(job_id, index, "scanning"), outside
\* the inner try (job_runner.py:43)
UpdateHotelStatus(i) ==
    /\ t_pc[i] = "updating"
    /\ \/ /\ saved' = [saved EXCEPT ![i].status = "scanning"]
          /\ t_pc' = [t_pc EXCEPT ![i] = "analyzing"]
          /\ UNCHANGED <<sem, t_out>>
       \/ /\ t_pc' = [t_pc EXCEPT ![i] = "failed"]
          /\ t_out' = [t_out EXCEPT ![i] = Exception(ExcDb)]
          /\ sem' = sem + 1
          /\ UNCHANGED saved
    /\ UNCHANGED <<mode, n_hotels, limit, b_pc, scan_out, db_job, batch, session, _tasks, created>>
    /\ UNCHANGED notRunVars

\* result = await analyze_hotel(...)   (batch_runner.py:29-34, job_runner.py:46-51)
Analyze(i) ==
    /\ t_pc[i] = "analyzing"
    /\ \/ \E r \in ScanResults(i) :
             /\ scan_out' = [scan_out EXCEPT ![i] = r]
             /\ t_pc' = [t_pc EXCEPT ![i] = IF mode = "_run_job" THEN "saving" ELSE "sleeping"]
             /\ UNCHANGED <<sem, t_out>>
       \/ /\ scan_out' = [scan_out EXCEPT ![i] = Exception(ExcScan)]
          /\ IF mode = "_run_job"
             THEN /\ t_pc' = [t_pc EXCEPT ![i] = "saving_scan_error"]
                  /\ UNCHANGED <<sem, t_out>>
             ELSE /\ t_pc' = [t_pc EXCEPT ![i] = "failed"]
                  /\ t_out' = [t_out EXCEPT ![i] = Exception(ExcScan)]
                  /\ sem' = sem + 1
    /\ UNCHANGED <<mode, n_hotels, limit, b_pc, saved, db_job, batch, session, _tasks, created>>
    /\ UNCHANGED notRunVars

\* _run_job: await db.save_hotel_result(...)   (job_runner.py:52-59)
SaveHotelResult(i) ==
    /\ t_pc[i] = "saving"
    /\ \/ /\ saved' = [saved EXCEPT ![i] = [status |-> "done", result_json |-> scan_out[i]]]
          /\ t_pc' = [t_pc EXCEPT ![i] = "sleeping"]
       \/ /\ t_pc' = [t_pc EXCEPT ![i] = "saving_db_error"]
          /\ UNCHANGED saved
    /\ UNCHANGED <<mode, n_hotels, limit, sem, b_pc, t_out, scan_out, db_job, batch, session, _tasks, created>>
    /\ UNCHANGED notRunVars

\* _run_job: except Exception as e: ... await db.save_hotel_error(...)   (60-69)
SaveHotelError(i) ==
    /\ t_pc[i] \in {"saving_scan_error", "saving_db_error"}
    /\ LET text == IF t_pc[i] = "saving_scan_error" THEN ExcScan ELSE ExcDb
       IN  \/ /\ saved' = [saved EXCEPT ![i] =
                              [status |-> "error", result_json |-> ErrorRecord(i, text)]]
              /\ t_pc' = [t_pc EXCEPT ![i] = "sleeping"]
              /\ UNCHANGED <<sem, t_out>>
           \/ /\ t_pc' = [t_pc EXCEPT ![i] = "failed"]
              /\ t_out' = [t_out EXCEPT ![i] = Exception(ExcDb)]
              /\ sem' = sem + 1
              /\ UNCHANGED saved
    /\ UNCHANGED <<mode, n_hotels, limit, b_pc, scan_out, db_job, batch, session, _tasks, created>>
    /\ UNCHANGED notRunVars

\* await asyncio.sleep(1.0), then the semaphore is released and the task ends
Sleep(i) ==
    /\ t_pc[i] = "sleeping"
    /\ t_pc' = [t_pc EXCEPT ![i] = "done"]
    /\ t_out' = [t_out EXCEPT ![i] = IF mode = "_run_job" THEN [kind |-> "None"]
                                      ELSE scan_out[i]]
    /\ sem' = sem + 1
    /\ UNCHANGED <<mode, n_hotels, limit, b_pc, scan_out, saved, db_job, batch, session, _tasks, created>>
    /\ UNCHANGED notRunVars

(***************************************************************************)
(* The job registry (job_runner.py:16-26).                                 *)
(***************************************************************************)
\* job ids: start_scan draws uuid.uuid4().hex[:12] (main.py:52), launch_job
\* takes whatever string it is given
JobIds == {"a1b2c3d4e5f6", "0f9e8d7c6b5a"}

\* the job the coordinator of mode "_run_job" runs
Job == "a1b2c3d4e5f6"

\* task = asyncio.create_task(_run_job(job_id, hotels)): a task that runs;
\* later "finished" (returned or raised), and "called_back" once the loop has
\* run its done callback
Task(job_id) == [job_id |-> job_id, state |-> "running", raised |-> FALSE]

\* the coroutine of task t is over: it returned, or an exception left it
Finished(t, raised) == [created EXCEPT ![t].state = "finished", ![t].raised = raised]

\* dict.pop(key, None)
pop(d, key) == [k \in DOMAIN d \ {key} |-> d[k]]

\* launch_job without its guard
launch_job_unguarded(job_id) ==
    /\ mode = "none"
    /\ Len(f_in) < MaxLaunches
    /\ f_in' = Append(f_in, job_id)
    /\ created' = Append(created, Task(job_id))
    /\ _tasks' = [j \in DOMAIN _tasks \cup {job_id} |->
                     IF j = job_id THEN Len(created) + 1 ELSE _tasks[j]]
    /\ UNCHANGED <<f_out, result, confVars, cascadeVars, scanVars, coordVars>>

\* launch_job(job_id, hotels)   (job_runner.py:19-26); f_in is the list of the
\* job ids launch_job was called with
launch_job(job_id) ==
    /\ mode = "none"
    /\ Len(f_in) < MaxLaunches
    /\ f_in' = Append(f_in, job_id)
    /\ IF job_id \in DOMAIN _tasks
       THEN UNCHANGED <<_tasks, created>>
       ELSE /\ created' = Append(created, Task(job_id))
            /\ _tasks' = [j \in DOMAIN _tasks \cup {job_id} |->
                             IF j = job_id THEN Len(created) + 1 ELSE _tasks[j]]
    /\ UNCHANGED <<f_out, result, confVars, cascadeVars, scanVars, coordVars>>

\* the _run_job of a task ends, with or without an exception (the registry
\* looked at on its own: what _run_job does is the coordinator above)
TaskEnds(t) ==
    /\ mode = "none"
    /\ created[t].state = "running"
    /\ \E raised \in BOOLEAN : created' = Finished(t, raised)
    /\ UNCHANGED <<_tasks, coordVars, notRunVars>>

\* task.add_done_callback(lambda _: _tasks.pop(job_id, None)): the loop calls
\* it once, after the task has finished (job_runner.py:26)
DoneCallback(t) ==
    /\ created[t].state = "finished"
    /\ _tasks' = pop(_tasks, created[t].job_id)
    /\ created' = [created EXCEPT ![t].state = "called_back"]
    /\ UNCHANGED <<coordVars, notRunVars>>

\* import of job_runner: _tasks = {}
InitRegistry ==
    /\ RunIdle
    /\ result = DefaultResult
    /\ conf_input = DefaultResult
    /\ conf_returned = <<>>
    /\ CascadeIdle
    /\ ScanIdle
    /\ FnIdle

NextRegistry ==
    \/ \E job_id \in JobIds : launch_job(job_id)
    \/ \E t \in DOMAIN created : TaskEnds(t)
    \/ \E t \in DOMAIN created : DoneCallback(t)

SpecRegistry == InitRegistry /\ [][NextRegistry]_vars

\* _run_job: await db.mark_job_running(job_id)   (32)
MarkJobRunning ==
    /\ mode = "_run_job"
    /\ b_pc = "start"
    /\ \/ db_job' = "running" /\ b_pc' = "entering"
       \/ db_job' = db_job /\ b_pc' = "failing"
    /\ UNCHANGED <<mode, n_hotels, limit, sem, t_pc, t_out, scan_out, saved, batch, session, _tasks, created>>
    /\ UNCHANGED notRunVars

\* BrowserSession.__aenter__ (browser_session.py:14-29): the driver is started,
\* then the browser launched; either await may raise, and what was started
\* before it stays as it is.  Each outcome: the session after it, and whether
\* the call returned.
__aenter__(s) ==
    { [session |-> s, ok |-> FALSE],
      [session |-> [s EXCEPT !.playwright = "running"], ok |-> FALSE],
      [session |-> [s EXCEPT !.playwright = "running", !.browser = "running"], ok |-> TRUE] }

\* BrowserSession.__aexit__ (31-35): browser.close(), then playwright.stop();
\* a close that raises leaves stop() uncalled, and a call that raised may or
\* may not have ended its process.
__aexit__(s) ==
    LET called == [s EXCEPT !.exits = @ + 1]
    IN  { [session |-> [called EXCEPT !.browser = "closed", !.playwright = "stopped"],
           ok |-> TRUE] }
        \cup { [session |-> [called EXCEPT !.browser = b], ok |-> FALSE] :
                  b \in {"running", "closed"} }
        \cup { [session |-> [called EXCEPT !.browser = "closed", !.playwright = p],
                ok |-> FALSE] : p \in {"running", "stopped"} }

\* async with BrowserSession(...) as browser:   (batch_runner.py:22, job_runner.py:35)
\* when __aenter__ raises the with statement does not call __aexit__
EnterSession ==
    /\ \/ mode = "run_batch" /\ b_pc = "start"
       \/ mode = "_run_job" /\ b_pc = "entering"
    /\ \E o \in __aenter__(session) :
          /\ session' = o.session
          /\ b_pc' = IF o.ok THEN "gathering"
                     ELSE IF mode = "_run_job" THEN "failing" ELSE "raised"
    /\ UNCHANGED <<mode, n_hotels, limit, sem, t_pc, t_out, scan_out, saved, db_job, batch, _tasks, created>>
    /\ UNCHANGED notRunVars

\* gather(..., return_exceptions=True) is over when every task has ended;
\* then the with block is left (__aexit__) and, in run_batch, the BatchResult
\* is built (batch_runner.py:44-67; job_runner.py:74-76)
ExitSession ==
    /\ b_pc = "gathering"
    /\ \A i \in Hotels : t_pc[i] \in {"done", "failed"}
    /\ \E o \in __aexit__(session) :
          /\ session' = o.session
          /\ \/ /\ o.ok
                /\ mode = "run_batch"
                /\ batch' = BatchResult(n_hotels, final_results(t_out))
                /\ b_pc' = "returned"
             \/ /\ o.ok
                /\ mode = "_run_job"
                /\ b_pc' = "marking_done"
                /\ UNCHANGED batch
             \/ /\ ~o.ok
                /\ b_pc' = IF mode = "_run_job" THEN "failing" ELSE "raised"
                /\ UNCHANGED batch
    /\ UNCHANGED <<mode, n_hotels, limit, sem, t_pc, t_out, scan_out, saved, db_job, _tasks, created>>
    /\ UNCHANGED notRunVars

\* _run_job: await db.mark_job_done(job_id)   (76)
MarkJobDone ==
    /\ b_pc = "marking_done"
    /\ \/ db_job' = "done" /\ b_pc' = "returned" /\ created' = Finished(1, FALSE)
       \/ db_job' = db_job /\ b_pc' = "failing" /\ created' = created
    /\ UNCHANGED <<mode, n_hotels, limit, sem, t_pc, t_out, scan_out, saved, batch, session, _tasks>>
    /\ UNCHANGED notRunVars

\* _run_job: except Exception as e: await db.mark_job_failed(job_id, str(e))   (79-81)
MarkJobFailed ==
    /\ b_pc = "failing"
    /\ \/ db_job' = "failed" /\ b_pc' = "returned" /\ created' = Finished(1, FALSE)
       \/ db_job' = db_job /\ b_pc' = "raised" /\ created' = Finished(1, TRUE)
    /\ UNCHANGED <<mode, n_hotels, limit, sem, t_pc, t_out, scan_out, saved, batch, session, _tasks>>
    /\ UNCHANGED notRunVars

InitRun ==
    /\ mode \in {"run_batch", "_run_job"}
    /\ n_hotels \in 0..MaxHotels
    /\ \E max_concurrent \in 0..MaxLimit, configured \in 1..MaxLimit :
          limit = IF mode = "run_batch" THEN EffectiveLimit(max_concurrent, configured)
                  ELSE configured
    /\ sem = limit
    /\ b_pc = "start"
    /\ t_pc = [i \in 1..n_hotels |-> "waiting"]
    /\ t_out = [i \in 1..n_hotels |-> NoOutcome]
    /\ scan_out = [i \in 1..n_hotels |-> NoOutcome]
    /\ saved = [i \in 1..n_hotels |-> NoRow]
    /\ db_job = "pending"
    /\ batch = NoBatch
    /\ session = NoSession
    /\ created = IF mode = "_run_job" THEN <<Task(Job)>> ELSE <<>>
    /\ _tasks = IF mode = "_run_job" THEN [j \in {Job} |-> 1] ELSE <<>>
    /\ result = DefaultResult
    /\ conf_input = DefaultResult
    /\ conf_returned = <<>>
    /\ CascadeIdle
    /\ ScanIdle
    /\ FnIdle

NextRun ==
    \/ MarkJobRunning
    \/ EnterSession
    \/ ExitSession
    \/ MarkJobDone
    \/ MarkJobFailed
    \/ \E i \in Hotels : Acquire(i)
    \/ \E i \in Hotels : UpdateHotelStatus(i)
    \/ \E i \in Hotels : Analyze(i)
    \/ \E i \in Hotels : SaveHotelResult(i)
    \/ \E i \in Hotels : SaveHotelError(i)
    \/ \E i \in Hotels : Sleep(i)
    \/ \E t \in DOMAIN created : DoneCallback(t)

SpecRun == InitRun /\ [][NextRun]_vars

\* the event loop runs every task that is ready: a step of the coordinator,
\* of a scan task that holds or can take a permit, or a pending done
\* callback is eventually taken; every scan terminates
SpecRunFair == InitRun /\ [][NextRun]_vars /\ WF_vars(NextRun)

(***************************************************************************)
(* The progress stream (main.py:82-176) next to the rows a job writes.     *)
(* f_in holds the locals of event_generator, f_out the events it yielded.  *)
(***************************************************************************)
Event(type, index) == [type |-> type, index |-> index]

\* hotel indexes in the order get_job_hotels returns the rows (db.py:93-101)
RowOrder(hotels) == [i \in 1..Len(hotels) |-> i]

\* done_hotels (main.py:112-116): the indexes of the rows with status done or
\* error and a result_json, sorted by hotel_index
done_hotels(hotels) ==
    SelectSeq(RowOrder(hotels),
              LAMBDA i : hotels[i].status \in {"done", "error"} /\ hotels[i].result_json # NoOutcome)

\* the rows for which a "scanning" event is due (main.py:101-109)
NewlyScanning(hotels, sent_scanning) ==
    SelectSeq(RowOrder(hotels),
              LAMBDA i : hotels[i].status = "scanning" /\ i \notin sent_scanning)

Events(type, indexes) == [k \in 1..Len(indexes) |-> Event(type, indexes[k])]

StreamLocals(at, job, last_seen_done, sent_scanning) ==
    [at |-> at, job |-> job, last_seen_done |-> last_seen_done, sent_scanning |-> sent_scanning]

Streaming == mode = "_run_job" /\ b_pc = "idle"

\* job = await db.get_job(job_id); yield "started"   (main.py:87-95)
StreamStarted ==
    /\ Streaming
    /\ f_in.at = "start"
    /\ f_in' = [f_in EXCEPT !.at = "get_job"]
    /\ f_out' = Append(f_out, Event("started", 0))
    /\ UNCHANGED <<result, confVars, cascadeVars, scanVars, runVars>>

\* job = await db.get_job(job_id)   (main.py:98)
GetJob ==
    /\ Streaming
    /\ f_in.at = "get_job"
    /\ f_in' = [f_in EXCEPT !.at = "get_job_hotels", !.job = db_job]
    /\ UNCHANGED <<f_out, result, confVars, cascadeVars, scanVars, runVars>>

\* hotels = await db.get_job_hotels(job_id) and the rest of the loop body
\* (main.py:99-170): the scanning events, the result events of
\* done_hotels[last_seen_done:], the final event or the sleep
GetJobHotels ==
    /\ Streaming
    /\ f_in.at = "get_job_hotels"
    /\ LET hotels == saved
           scanning == NewlyScanning(hotels, f_in.sent_scanning)
           done == done_hotels(hotels)
           fresh == SubSeq(done, f_in.last_seen_done + 1, Len(done))
           over == f_in.job \in {"done", "failed"}
       IN  /\ f_out' = f_out \o Events("scanning", scanning) \o Events("result", fresh)
                             \o (IF over THEN <<Event("done", 0)>> ELSE <<>>)
           /\ f_in' = StreamLocals(IF over THEN "closed" ELSE "get_job", f_in.job, Len(done),
                                   f_in.sent_scanning \cup Range(scanning))
    /\ UNCHANGED <<result, confVars, cascadeVars, scanVars, runVars>>

RowVars == <<mode, n_hotels, limit, sem, b_pc, t_pc, t_out, scan_out, batch, session,
             _tasks, created, fnVars, result, confVars, cascadeVars, scanVars>>

\* the writes of _run_job as the stream sees them, in the order _run_job
\* makes them (job_runner.py:32, 43, 52, 62, 76, 81)
mark_job_running ==
    /\ Streaming
    /\ db_job = "pending"
    /\ db_job' = "running"
    /\ UNCHANGED <<saved, RowVars>>

update_hotel_status(i) ==
    /\ Streaming
    /\ db_job = "running"
    /\ saved[i].status = "pending"
    /\ saved' = [saved EXCEPT ![i].status = "scanning"]
    /\ UNCHANGED <<db_job, RowVars>>

save_hotel_result(i) ==
    /\ Streaming
    /\ db_job = "running"
    /\ saved[i].status = "scanning"
    /\ saved' = [saved EXCEPT ![i] = [status |-> "done",
                                     result_json |-> Record(i, FALSE, FALSE, <<>>)]]
    /\ UNCHANGED <<db_job, RowVars>>

save_hotel_error(i) ==
    /\ Streaming
    /\ db_job = "running"
    /\ saved[i].status = "scanning"
    /\ saved' = [saved EXCEPT ![i] = [status |-> "error",
                                     result_json |-> ErrorRecord(i, ExcScan)]]
    /\ UNCHANGED <<db_job, RowVars>>

\* after the gather: every scan task has ended
mark_job_done ==
    /\ Streaming
    /\ db_job = "running"
    /\ \A i \in Hotels : saved[i].status \in {"done", "error"}
    /\ db_job' = "done"
    /\ UNCHANGED <<saved, RowVars>>

\* the session could not be opened (no scan started) or not be closed (every
\* scan over)
mark_job_failed ==
    /\ Streaming
    /\ db_job \in {"pending", "running"}
    /\ \/ \A i \in Hotels : saved[i].status = "pending"
       \/ \A i \in Hotels : saved[i].status \in {"done", "error"}
    /\ db_job' = "failed"
    /\ UNCHANGED <<saved, RowVars>>

\* start_scan has created the job and its rows (main.py:52-55), the client
\* opens the stream
InitStream ==
    /\ mode = "_run_job"
    /\ n_hotels \in 1..MaxHotels
    /\ limit = 0
    /\ sem = 0
    /\ b_pc = "idle"
    /\ t_pc = <<>>
    /\ t_out = <<>>
    /\ scan_out = <<>>
    /\ saved = [i \in 1..n_hotels |-> NoRow]
    /\ db_job = "pending"
    /\ batch = NoBatch
    /\ session = NoSession
    /\ _tasks = <<>>
    /\ created = <<>>
    /\ f_in = StreamLocals("start", "pending", 0, {})
    /\ f_out = <<>>
    /\ result = DefaultResult
    /\ conf_input = DefaultResult
    /\ conf_returned = <<>>
    /\ CascadeIdle
    /\ ScanIdle

NextStream ==
    \/ StreamStarted
    \/ GetJob
    \/ GetJobHotels
    \/ mark_job_running
    \/ mark_job_done
    \/ mark_job_failed
    \/ \E i \in Hotels : update_hotel_status(i)
    \/ \E i \in Hotels : save_hotel_result(i)
    \/ \E i \in Hotels : save_hotel_error(i)

SpecStream == InitStream /\ [][NextStream]_vars

(***************************************************************************)
(* _inject_dates_into_url (duetto_analyzer.py:22-122).  A URL is a record: *)
(* scheme ("" when the text does not start with "http"), host, path and    *)
(* the query as the sequence of its <<name, value>> pairs as written.      *)
(***************************************************************************)
Url(scheme, host, path, query) ==
    [scheme |-> scheme, host |-> host, path |-> path, query |-> query]

\* today + 14 and today + 15 days, as %Y-%m-%d and as %m/%d/%Y
Checkin == "D14"
Checkout == "D15"
CheckinSlash == "M14/"
CheckoutSlash == "M15/"

\* unquote_plus on a value as written (parse_qs)
Unquote(raw) ==
    CASE raw = "a%20b" -> "a b"
      [] raw = "a+b" -> "a b"
      [] raw = "M14%2F" -> "M14/"
      [] raw = "M15%2F" -> "M15/"
      [] OTHER -> raw

\* quote_plus on a value (urlencode)
Quote(value) ==
    CASE value = "a b" -> "a+b"
      [] value = "M14/" -> "M14%2F"
      [] value = "M15/" -> "M15%2F"
      [] OTHER -> value

\* netloc.lower()
LowerHost(host) == IF host = "Be.SynXis.com" THEN "be.synxis.com" ELSE host

\* the vendor words that occur in a lower-cased host, and in a path
HostWords(host) ==
    CASE host = "be.synxis.com" -> {"synxis"}
      [] host = "reservations.travelclick.com" -> {"travelclick", "reservations."}
      [] host = "reservations.hotel.example" -> {"reservations."}
      [] host = "hotels.cloudbeds.com" -> {"cloudbeds"}
      [] OTHER -> {}

PathWords(path) == IF path = "/synxis/rez" THEN {"synxis"} ELSE {}

\* faulty variant: the names are compared as they are written
ExactName(k) == k

\* k.lower() for a parameter name
LowerName(k) ==
    CASE k = "CheckIn" -> "checkin"
      [] k = "Arrive" -> "arrive"
      [] OTHER -> k

DateNames ==
    { "arrive", "depart", "checkin", "checkout", "check_in", "check_out", "datein",
      "dateout", "startdate", "enddate", "arrivaldate", "departuredate", "start_date",
      "end_date", "arrival", "departure" }

\* the dictionary parse_qs builds, as the sequence of its items in insertion
\* order: pairs with a blank value are left out, a repeated name collects
RECURSIVE parse_qs(_, _, _)
parse_qs(query, i, params) ==
    IF i > Len(query) THEN params
    ELSE LET k == query[i][1]
             raw == query[i][2]
             at == {j \in 1..Len(params) : params[j].name = k}
         IN  IF raw = "" THEN parse_qs(query, i + 1, params)
             ELSE IF at = {}
             THEN parse_qs(query, i + 1,
                           Append(params, [name |-> k, values |-> <<Unquote(raw)>>]))
             ELSE parse_qs(query, i + 1,
                           [params EXCEPT ![CHOOSE j \in at : TRUE].values =
                                              Append(@, Unquote(raw))])

\* faulty variant: the parameter is added whether or not it is there
AddParam(params, k, v) == Append(params, [name |-> k, values |-> <<v>>])

\* params.setdefault(k, [v])
setdefault(params, k, v) ==
    IF \E j \in 1..Len(params) : params[j].name = k THEN params
    ELSE Append(params, [name |-> k, values |-> <<v>>])

RECURSIVE SetDefaults(_, _, _)
SetDefaults(params, defaults, i) ==
    IF i > Len(defaults) THEN params
    ELSE SetDefaults(setdefault(params, defaults[i][1], defaults[i][2]), defaults, i + 1)

\* the branch of the if/elif chain (43-100) taken for a URL
Vendor(url) ==
    LET host == HostWords(LowerHost(url.host))
        anywhere == host \cup PathWords(url.path)
    IN  CASE "synxis" \in anywhere -> "synxis"
          [] "travelclick" \in anywhere -> "travelclick"
          [] "reservations." \in host -> "reservations"
          [] {"siteminder", "littlehotelier"} \cap host # {} -> "siteminder"
          [] "cloudbeds" \in host -> "cloudbeds"
          [] "bookassist" \in host -> "bookassist"
          [] "profitroom" \in host -> "profitroom"
          [] "mews" \in host -> "mews"
          [] {"d-edge", "availpro"} \cap host # {} -> "d-edge"
          [] {"rfrb", "roiback"} \cap host # {} -> "roiback"
          [] "mirai" \in host -> "mirai"
          [] OTHER -> "generic"

\* the parameters each branch sets by default
Defaults(vendor) ==
    CASE vendor = "synxis" ->
            << <<"arrive", Checkin>>, <<"depart", Checkout>>, <<"adult", "2">>,
               <<"rooms", "1">> >>
      [] vendor \in {"travelclick", "reservations"} ->
            << <<"datein", CheckinSlash>>, <<"dateout", CheckoutSlash>>, <<"adults", "2">> >>
      [] vendor \in {"siteminder", "cloudbeds", "roiback", "mirai"} ->
            << <<"checkin", Checkin>>, <<"checkout", Checkout>> >>
      [] vendor = "bookassist" -> << <<"arrive", Checkin>>, <<"depart", Checkout>> >>
      [] vendor = "profitroom" -> << <<"dateFrom", Checkin>>, <<"dateTo", Checkout>> >>
      [] vendor = "mews" -> << <<"startDate", Checkin>>, <<"endDate", Checkout>> >>
      [] vendor = "d-edge" ->
            << <<"arrivalDate", Checkin>>, <<"departureDate", Checkout>> >>
      [] OTHER ->
            << <<"checkin", Checkin>>, <<"checkout", Checkout>>, <<"adults", "2">> >>

_inject_dates_into_url(url) ==
    IF url.scheme = "" THEN url         \* not url or not url.startswith("http")
    ELSE LET params == parse_qs(url.query, 1, <<>>)
             vendor == Vendor(url)
             has_dates == \E j \in 1..Len(params) : LowerName(params[j].name) \in DateNames
             filled == IF vendor = "generic" /\ has_dates THEN params
                       ELSE SetDefaults(params, Defaults(vendor), 1)
             \* flat_params, urlencode
             new_query == [j \in 1..Len(filled) |->
                              <<filled[j].name, Quote(filled[j].values[1])>>]
         IN  [url EXCEPT !.query = new_query]

InjectHosts == {"be.synxis.com", "Be.SynXis.com", "reservations.travelclick.com",
                "reservations.hotel.example", "hotels.cloudbeds.com", "www.hotel.example"}
InjectPaths == {"/", "/synxis/rez"}
InjectNames == {"chain", "arrive", "depart", "adult", "CheckIn"}
InjectValues == {"", "123", "a%20b"}
InjectUrls ==
    { Url(sc, h, p, q) : sc \in {"https", ""}, h \in InjectHosts, p \in InjectPaths,
                         q \in SeqsUpTo(InjectNames \X InjectValues, MaxParams) }

\* the function is applied to a URL, then to what it returned
InjectDates ==
    /\ Len(f_out) < 2
    /\ f_out' = Append(f_out, _inject_dates_into_url(
                                  IF f_out = <<>> THEN f_in ELSE f_out[Len(f_out)]))
    /\ UNCHANGED <<f_in, result, confVars, cascadeVars, scanVars, runVars>>

InitInject ==
    /\ f_in \in InjectUrls
    /\ f_out = <<>>
    /\ result = DefaultResult
    /\ conf_input = DefaultResult
    /\ conf_returned = <<>>
    /\ CascadeIdle
    /\ ScanIdle
    /\ RunIdle

NextInject == InjectDates

SpecInject == InitInject /\ [][NextInject]_vars

(***************************************************************************)
(* What each API tier keeps of the candidates its external calls answer    *)
(* with (ai_booking_query.py, smart_link_finder.py, fallback_web_search.py,*)
(* fallback_brand_crawl.py).  A candidate is a URL with the confidence the *)
(* language model gave it and whether its title or description has one of  *)
(* the booking words.                                                      *)
(***************************************************************************)
Candidate(url, confidence, words) ==
    [url |-> url, confidence |-> confidence, words |-> words]

\* ai_booking_query.py:20-25
OTA_DOMAINS ==
    { "booking.com", "expedia.com", "hotels.com", "kayak.com", "tripadvisor.com",
      "agoda.com", "priceline.com", "trivago.com", "hotwire.com", "orbitz.com",
      "travelocity.com", "trip.com", "google.com", "momondo.com", "skyscanner.com" }

\* fallback_web_search.py:21-27
WebSearchOtaDomains ==
    { "booking.com", "expedia.com", "hotels.com", "kayak.com", "tripadvisor.com",
      "agoda.com", "priceline.com", "trivago.com", "hotwire.com", "orbitz.com",
      "travelocity.com", "trip.com", "momondo.com", "skyscanner.com",
      "cheaptickets.com", "lastminute.com", "hostelworld.com", "google.com" }

\* the characters of the host names and domains that occur
NameChars ==
       "www.booking.com" :> <<"w", "w", "w", ".", "b", "o", "o", "k", "i", "n", "g", ".", "c", "o", "m">> @@
       "booking.com" :> <<"b", "o", "o", "k", "i", "n", "g", ".", "c", "o", "m">> @@
       "www.lastminute.com" :> <<"w", "w", "w", ".", "l", "a", "s", "t", "m", "i", "n", "u", "t", "e", ".", "c", "o", "m">> @@
       "lastminute.com" :> <<"l", "a", "s", "t", "m", "i", "n", "u", "t", "e", ".", "c", "o", "m">> @@
       "be.synxis.com" :> <<"b", "e", ".", "s", "y", "n", "x", "i", "s", ".", "c", "o", "m">> @@
       "synxis.com" :> <<"s", "y", "n", "x", "i", "s", ".", "c", "o", "m">> @@
       "www.hotel.example" :> <<"w", "w", "w", ".", "h", "o", "t", "e", "l", ".", "e", "x", "a", "m", "p", "l", "e">> @@
       "hotel.example" :> <<"h", "o", "t", "e", "l", ".", "e", "x", "a", "m", "p", "l", "e">> @@
       "www.booking.com:443" :> <<"w", "w", "w", ".", "b", "o", "o", "k", "i", "n", "g", ".", "c", "o", "m", ":", "4", "4", "3">> @@
       "booking.com:443" :> <<"b", "o", "o", "k", "i", "n", "g", ".", "c", "o", "m", ":", "4", "4", "3">> @@
       "/book" :> <<"/", "b", "o", "o", "k">> @@
       "sub.example.com" :> <<"s", "u", "b", ".", "e", "x", "a", "m", "p", "l", "e", ".", "c", "o", "m">> @@
       "example.com" :> <<"e", "x", "a", "m", "p", "l", "e", ".", "c", "o", "m">> @@
       "www.wyndhamhotels.com" :> <<"w", "w", "w", ".", "w", "y", "n", "d", "h", "a", "m", "h", "o", "t", "e", "l", "s", ".", "c", "o", "m">> @@
       "yndhamhotels.com" :> <<"y", "n", "d", "h", "a", "m", "h", "o", "t", "e", "l", "s", ".", "c", "o", "m">> @@
       "wyndhamhotels.com" :> <<"w", "y", "n", "d", "h", "a", "m", "h", "o", "t", "e", "l", "s", ".", "c", "o", "m">> @@
       "www.marriott.com" :> <<"w", "w", "w", ".", "m", "a", "r", "r", "i", "o", "t", "t", ".", "c", "o", "m">> @@
       "marriott.com" :> <<"m", "a", "r", "r", "i", "o", "t", "t", ".", "c", "o", "m">> @@
       "hotel.hardrock.com" :> <<"h", "o", "t", "e", "l", ".", "h", "a", "r", "d", "r", "o", "c", "k", ".", "c", "o", "m">> @@
       "hardrock.com" :> <<"h", "a", "r", "d", "r", "o", "c", "k", ".", "c", "o", "m">> @@
       "localhost" :> <<"l", "o", "c", "a", "l", "h", "o", "s", "t">> @@
       "reservations.travelclick.com" :> <<"r", "e", "s", "e", "r", "v", "a", "t", "i", "o", "n", "s", ".", "t", "r", "a", "v", "e", "l", "c", "l", "i", "c", "k", ".", "c", "o", "m">> @@
       "travelclick.com" :> <<"t", "r", "a", "v", "e", "l", "c", "l", "i", "c", "k", ".", "c", "o", "m">> @@
       "reservations.hotel.example" :> <<"r", "e", "s", "e", "r", "v", "a", "t", "i", "o", "n", "s", ".", "h", "o", "t", "e", "l", ".", "e", "x", "a", "m", "p", "l", "e">> @@
       "hotels.cloudbeds.com" :> <<"h", "o", "t", "e", "l", "s", ".", "c", "l", "o", "u", "d", "b", "e", "d", "s", ".", "c", "o", "m">> @@
       "cloudbeds.com" :> <<"c", "l", "o", "u", "d", "b", "e", "d", "s", ".", "c", "o", "m">>

Chars(name) == NameChars[name]

Text(chars) == CHOOSE name \in DOMAIN NameChars : NameChars[name] = chars

\* str.lstrip(chars): leading characters are dropped while they are in chars
RECURSIVE lstrip(_, _)
lstrip(s, chars) ==
    IF s # <<>> /\ s[1] \in chars THEN lstrip(Tail(s), chars) ELSE s

\* netloc.lower().lstrip("www.")
StripWww(host) == lstrip(Chars(LowerHost(host)), {"w", "."})

\* parts = host.split("."); ".".join(parts[-2:]) if len(parts) >= 2 else host
LastTwoLabels(base) ==
    LET dots == {i \in 1..Len(base) : base[i] = "."}
        last == CHOOSE i \in dots : \A j \in dots : j <= i
        before == {i \in dots : i < last}
    IN  IF before = {} THEN base
        ELSE SubSeq(base, (CHOOSE i \in before : \A j \in before : j <= i) + 1, Len(base))

\* what extract_base_domain works on: the netloc when the text has "://",
\* else the text itself
HostPart(url) ==
    IF url.scheme # "" THEN url.host
    ELSE IF url.host # "" THEN url.host ELSE url.path

\* extract_base_domain (booking_engine_domains.py:68-82)
extract_base_domain(url) == Text(LastTwoLabels(StripWww(HostPart(url))))

\* url_matches_booking_engine (booking_engine_domains.py:59-65)
url_matches_booking_engine(url) == HostWords(LowerHost(url.host)) # {}

\* ai_booking_query.py:73-89
_validate_url(url) ==
    /\ url.scheme # ""
    /\ url.host # ""
    /\ Text(LastTwoLabels(StripWww(url.host))) \notin OTA_DOMAINS

\* find_booking_link_via_ai (ai_booking_query.py:92-125).  reply is how
\* _query_haiku ends: "fails" (the call raises, 101-103), "malformed" (the
\* text is not JSON, so {} comes back, 66-70) or "ok" with the object
\* answered, which is empty when it has no "url"
find_booking_link_via_ai(city, key, reply, answer) ==
    IF key = "" \/ city = "" THEN <<>>
    ELSE IF reply # "ok" \/ answer = <<>> THEN <<>>
    ELSE IF ~_validate_url(answer[1].url) \/ answer[1].confidence = "none" THEN <<>>
    ELSE << Link("AI-suggested booking link", answer[1].url, "link", "ai_query", "new_tab") >>

\* links_data.sort(key=confidence_order...): a stable sort, "high" first
ByConfidence(links_data) ==
    SelectSeq(links_data, LAMBDA c : c.confidence = "high")
        \o SelectSeq(links_data, LAMBDA c : c.confidence # "high")

\* smart_link_finder.py:108-136
find_booking_links_smart(website, links_data) ==
    LET kept == SelectSeq(ByConfidence(links_data),
                          LAMBDA c : c.url.scheme # ""
                                     /\ StripWww(c.url.host) # StripWww(website.host))
    IN  [j \in 1..Len(kept) |->
            Link("Book Now", kept[j].url, "link", "firecrawl_llm", "new_tab")]

\* fallback_web_search.py:147-194 for one query; index is the language
\* model's answer when several candidates are left
find_booking_links_web_search(website, raw_results, index) ==
    LET hotel_base == extract_base_domain(website)
        external == SelectSeq(raw_results,
                        LAMBDA r : extract_base_domain(r.url) # hotel_base
                                   /\ extract_base_domain(r.url) \notin WebSearchOtaDomains)
        engines == SelectSeq(external, LAMBDA r : url_matches_booking_engine(r.url))
        booking_candidates ==
            IF engines # <<>> THEN engines ELSE SelectSeq(external, LAMBDA r : r.words)
        best == IF Len(booking_candidates) = 1 THEN <<booking_candidates[1]>>
                ELSE IF index \in 1..Len(booking_candidates)
                THEN <<booking_candidates[index]>>
                ELSE <<>>
    IN  IF booking_candidates = <<>> \/ best = <<>> THEN <<>>
        ELSE << Link("Booking Page", best[1].url, "link", "web_search", "new_tab") >>

\* fallback_brand_crawl.py:204-220
find_booking_links_brand_crawl(raw_links) ==
    LET kept == SelectSeq(raw_links, LAMBDA c : c.url.scheme # "")
    IN  [j \in 1..Len(kept) |->
            Link("Book Now", kept[j].url, "link", "brand_crawl", "new_tab")]

WebsiteUrl == Url("https", "www.hotel.example", "/", <<>>)

CandidateUrls ==
    { Url("https", "www.booking.com", "/hotel/x", <<>>),
      Url("https", "www.lastminute.com", "/hotel/x", <<>>),
      Url("https", "be.synxis.com", "/", <<>>),
      Url("https", "www.hotel.example", "/rooms", <<>>),
      Url("https", "www.booking.com:443", "/hotel/x", <<>>),
      Url("", "", "/book", <<>>) }

Candidates ==
    { Candidate(u, c, w) : u \in CandidateUrls, c \in {"high", "none"}, w \in BOOLEAN }

\* one tier works through the answers of its external calls
RunTier ==
    /\ f_out = <<>>
    /\ f_out' = << CASE f_in.tier = 1 ->
                            find_booking_link_via_ai(f_in.city, f_in.key, f_in.reply,
                                                     f_in.answers)
                     [] f_in.tier = 2 -> find_booking_links_smart(WebsiteUrl, f_in.answers)
                     [] f_in.tier = 3 ->
                            find_booking_links_web_search(WebsiteUrl, f_in.answers, f_in.index)
                     [] f_in.tier = 4 -> find_booking_links_brand_crawl(f_in.answers) >>
    /\ UNCHANGED <<f_in, result, confVars, cascadeVars, scanVars, runVars>>

\* what the tier is called with and what its external calls answer
TierInputs ==
    [ tier : {1}, city : {"", "Springfield"}, key : {"", "sk-ant"},
      reply : {"ok", "fails", "malformed"}, answers : SeqsUpTo(Candidates, 1) ]
    \cup [ tier : 2..4, answers : SeqsUpTo(Candidates, MaxCandidates),
           index : 0..MaxCandidates ]

InitTiers ==
    /\ f_in \in TierInputs
    /\ f_out = <<>>
    /\ result = DefaultResult
    /\ conf_input = DefaultResult
    /\ conf_returned = <<>>
    /\ CascadeIdle
    /\ ScanIdle
    /\ RunIdle

NextTiers == RunTier

SpecTiers == InitTiers /\ [][NextTiers]_vars

(***************************************************************************)
(* extract_base_domain (booking_engine_domains.py:68-82) and the chain     *)
(* pattern tier built on it (fallback_chain_patterns.py:93-134), each      *)
(* applied to a website given as a URL or as a bare host name.             *)
(***************************************************************************)
\* fallback_chain_patterns.py:19-90 (the first entry of each brand)
CHAIN_BOOKING_PATTERNS ==
       "hardrock.com" :> [provider |-> "SynXis", url_template |-> "https://be.synxis.com/?chain=28120"] @@
       "marriott.com" :> [provider |-> "Marriott IBE", url_template |-> "https://www.marriott.com/reservation/rateListMenu.mi"] @@
       "hilton.com" :> [provider |-> "Hilton IBE", url_template |-> "https://www.hilton.com/en/book/reservation/rooms/"] @@
       "ihg.com" :> [provider |-> "IHG IBE", url_template |-> "https://www.ihg.com/redirect"] @@
       "hyatt.com" :> [provider |-> "Hyatt IBE", url_template |-> "https://www.hyatt.com/shop/rooms/"] @@
       "accor.com" :> [provider |-> "Accor IBE", url_template |-> "https://all.accor.com/"] @@
       "wyndhamhotels.com" :> [provider |-> "Wyndham IBE", url_template |-> "https://www.wyndhamhotels.com/"] @@
       "choicehotels.com" :> [provider |-> "Choice IBE", url_template |-> "https://www.choicehotels.com/"] @@
       "radissonhotels.com" :> [provider |-> "Radisson IBE", url_template |-> "https://www.radissonhotels.com/"] @@
       "bestwestern.com" :> [provider |-> "Best Western IBE", url_template |-> "https://www.bestwestern.com/"]

\* f"Book Now ({info['provider']})"
BookNowText(provider) == <<"Book Now (", provider, ")">>

\* get_chain_info (93-97)
get_chain_info(website) ==
    LET base == extract_base_domain(website)
    IN  IF base \in DOMAIN CHAIN_BOOKING_PATTERNS THEN <<CHAIN_BOOKING_PATTERNS[base]>>
        ELSE <<>>

\* find_booking_links_chain_pattern (108-134)
find_booking_links_chain_pattern(website) ==
    LET info == get_chain_info(website)
    IN  IF info = <<>> THEN <<>>
        ELSE << Link(BookNowText(info[1].provider), info[1].url_template, "link",
                     "chain_pattern", "new_tab") >>

WebsiteHosts ==
    { "sub.example.com", "www.wyndhamhotels.com", "wyndhamhotels.com", "www.marriott.com",
      "marriott.com", "hotel.hardrock.com", "www.hotel.example", "be.synxis.com",
      "localhost" }

\* a URL with a path, or the host name on its own
Websites ==
    { Url("https", h, p, <<>>) : h \in WebsiteHosts, p \in {"/", "/rooms"} }
    \cup { Url("", h, "", <<>>) : h \in WebsiteHosts }

Called(fn) == \E i \in 1..Len(f_out) : f_out[i].fn = fn

ExtractBaseDomain ==
    /\ ~Called("extract_base_domain")
    /\ f_out' = Append(f_out, [fn |-> "extract_base_domain",
                               value |-> extract_base_domain(f_in)])
    /\ UNCHANGED <<f_in, result, confVars, cascadeVars, scanVars, runVars>>

ChainPattern ==
    /\ ~Called("find_booking_links_chain_pattern")
    /\ f_out' = Append(f_out, [fn |-> "find_booking_links_chain_pattern",
                               value |-> find_booking_links_chain_pattern(f_in)])
    /\ UNCHANGED <<f_in, result, confVars, cascadeVars, scanVars, runVars>>

InitDomain ==
    /\ f_in \in Websites
    /\ f_out = <<>>
    /\ result = DefaultResult
    /\ conf_input = DefaultResult
    /\ conf_returned = <<>>
    /\ CascadeIdle
    /\ ScanIdle
    /\ RunIdle

NextDomain ==
    \/ ExtractBaseDomain
    \/ ChainPattern

SpecDomain == InitDomain /\ [][NextDomain]_vars

(***************************************************************************)
(* dismiss_cookie_consent (detector/cookie_handler.py:42-53), followed     *)
(* through the calls it makes on the page.  f_in is the log of those       *)
(* calls with their outcomes, f_out what the function returned.            *)
(***************************************************************************)
\* cookie_handler.py:4-39
CONSENT_SELECTORS ==
    << "#CybotCookiebotDialogBodyLevelButtonLevelOptinAllowAll",
       "#CybotCookiebotDialogBodyButtonAccept",
       "#onetrust-accept-btn-handler",
       ".onetrust-close-btn-handler",
       ".qc-cmp2-summary-buttons button[mode='primary']",
       "#truste-consent-button",
       "#didomi-notice-agree-button",
       ".cmplz-accept",
       ".iubenda-cs-accept-btn",
       "[data-testid='uc-accept-all-button']",
       "button:has-text(\"Accept All\")",
       "button:has-text(\"Accept all\")",
       "button:has-text(\"Accept Cookies\")",
       "button:has-text(\"Accept all cookies\")",
       "button:has-text(\"Allow All\")",
       "button:has-text(\"Allow all cookies\")",
       "button:has-text(\"I Accept\")",
       "button:has-text(\"Agree\")",
       "button:has-text(\"OK\")",
       "button:has-text(\"Akzeptieren\")",
       "button:has-text(\"Alle akzeptieren\")",
       "button:has-text(\"Tout accepter\")",
       "button:has-text(\"Aceptar todo\")",
       "a:has-text(\"Accept All\")",
       "a:has-text(\"Accept all cookies\")" >>

PageCall(index, op, outcome) == [index |-> index, op |-> op, outcome |-> outcome]

\* a settle wait fails only on a page that is gone, and then every later
\* call on the page fails too
PageClosed(log) ==
    \E k \in 1..Len(log) : log[k].op = "wait_for_timeout" /\ log[k].outcome = "raises"

PageFaults(log) == Cardinality({k \in 1..Len(log) : log[k].outcome = "raises"})

\* the selector the loop is at: the one after the last whose try block was left
NextSelector(log) ==
    IF log = <<>> THEN 1
    ELSE LET last == log[Len(log)]
         IN  IF last.outcome \in {"hidden", "raises"}
             THEN last.index + 1
             ELSE last.index

\* what is_visible, click and wait_for_timeout can do on the page
Outcomes(log, good) ==
    IF PageClosed(log) THEN {"raises"}
    ELSE good \cup (IF PageFaults(log) < MaxPageFaults THEN {"raises"} ELSE {})

ConsentRunning == f_out = <<>> /\ NextSelector(f_in) <= Len(CONSENT_SELECTORS)

\* locator = page.locator(selector).first; await locator.is_visible(...)   (46-47)
IsVisible ==
    /\ ConsentRunning
    /\ IF f_in = <<>> THEN TRUE ELSE f_in[Len(f_in)].outcome \in {"hidden", "raises"}
    /\ \E o \in Outcomes(f_in, {"visible", "hidden"}) :
          f_in' = Append(f_in, PageCall(NextSelector(f_in), "is_visible", o))
    /\ UNCHANGED <<f_out, result, confVars, cascadeVars, scanVars, runVars>>

\* await locator.click(timeout=2000)   (48)
Click ==
    /\ ConsentRunning
    /\ f_in # <<>>
    /\ f_in[Len(f_in)].op = "is_visible" /\ f_in[Len(f_in)].outcome = "visible"
    /\ \E o \in Outcomes(f_in, {"ok"}) :
          f_in' = Append(f_in, PageCall(NextSelector(f_in), "click", o))
    /\ UNCHANGED <<f_out, result, confVars, cascadeVars, scanVars, runVars>>

\* await page.wait_for_timeout(500); return True   (49-50), inside the same
\* try block: except Exception: continue   (51-52)
SettleAndReturn ==
    /\ ConsentRunning
    /\ f_in # <<>>
    /\ f_in[Len(f_in)].op = "click" /\ f_in[Len(f_in)].outcome = "ok"
    /\ \E o \in Outcomes(f_in, {"ok"}) :
          /\ f_in' = Append(f_in, PageCall(NextSelector(f_in), "wait_for_timeout", o))
          /\ f_out' = IF o = "ok" THEN <<TRUE>> ELSE f_out
    /\ UNCHANGED <<result, confVars, cascadeVars, scanVars, runVars>>

\* the loop is over: return False   (53)
ReturnFalse ==
    /\ f_out = <<>>
    /\ NextSelector(f_in) > Len(CONSENT_SELECTORS)
    /\ f_out' = <<FALSE>>
    /\ UNCHANGED <<f_in, result, confVars, cascadeVars, scanVars, runVars>>

InitConsent ==
    /\ f_in = <<>>
    /\ f_out = <<>>
    /\ result = DefaultResult
    /\ conf_input = DefaultResult
    /\ conf_returned = <<>>
    /\ CascadeIdle
    /\ ScanIdle
    /\ RunIdle

NextConsent ==
    \/ IsVisible
    \/ Click
    \/ SettleAndReturn
    \/ ReturnFalse

SpecConsent == InitConsent /\ [][NextConsent]_vars

(***************************************************************************)
(* _find_by_text (booking_link_finder.py:70-107) on pages with many        *)
(* elements that match one pattern.  f_in is the page with the probes that *)
(* raise on it, f_out the candidates the pass collected.                   *)
(***************************************************************************)
\* visible links and buttons whose text matches BOOKING_TEXT_PATTERNS[0],
\* each with a key (href or text) of its own
BookLink(i) == Elem("a", "Book Now", "/book/" \o ToString(i), "", 1)
BookButton(i) == Elem("button", "Book Now " \o ToString(i), "", "", 1)

TextPassPages ==
    { [k \in 1..(a + b) |-> IF k <= a THEN BookLink(k) ELSE BookButton(k - a)] :
        a \in 0..MaxTextLinks, b \in 0..MaxTextButtons }

\* at most one probe of the pass raises: the read of one element, or one count()
TextPassFailures(page) ==
    {[unreadable |-> {}, count_fails |-> {}]}
    \cup {[unreadable |-> {i}, count_fails |-> {}] : i \in 1..Len(page)}
    \cup {[unreadable |-> {}, count_fails |-> {c}] :
             c \in {"text"} \X (1..2 * Len(TextPatterns))}

\* await _find_by_text(page, results, seen_hrefs) on empty results   (58)
FindByText ==
    /\ f_out = <<>>
    /\ f_out' = << _find_by_text(f_in.page, 1, [results |-> <<>>, seen |-> {}],
                                 f_in.unreadable, f_in.count_fails).results >>
    /\ UNCHANGED <<f_in, result, confVars, cascadeVars, scanVars, runVars>>

InitTextPass ==
    /\ \E page \in TextPassPages :
          \E f \in TextPassFailures(page) :
             f_in = [page |-> page, unreadable |-> f.unreadable, count_fails |-> f.count_fails]
    /\ f_out = <<>>
    /\ result = DefaultResult
    /\ conf_input = DefaultResult
    /\ conf_returned = <<>>
    /\ CascadeIdle
    /\ ScanIdle
    /\ RunIdle

NextTextPass == FindByText

SpecTextPass == InitTextPass /\ [][NextTextPass]_vars

(***************************************************************************)
(* rank_booking_links applied to a list of discovered links                *)
(* (booking_link_finder.py:185-227).                                       *)
(***************************************************************************)
TextLinkAbsolute == Link("Reserve", HrefReservations, "link", "text_match", "same_window")
RankLinks == {SmartLink, TextButton, SmartLink2, TextLink, TextLinkAbsolute, WebSearchLink,
              HrefLink}

RankLinksCall ==
    /\ f_out = <<>>
    /\ f_out' = <<rank_booking_links(f_in)>>
    /\ UNCHANGED <<f_in, result, confVars, cascadeVars, scanVars, runVars>>

InitRank ==
    /\ f_in \in SeqsUpTo(RankLinks, MaxLinks)
    /\ f_out = <<>>
    /\ result = DefaultResult
    /\ conf_input = DefaultResult
    /\ conf_returned = <<>>
    /\ CascadeIdle
    /\ ScanIdle
    /\ RunIdle

NextRank == RankLinksCall

SpecRank == InitRank /\ [][NextRank]_vars

(***************************************************************************)
(* detect_competitor_rms (competitor_rms.py:244-289) and the merge of its  *)
(* entries into result.competitor_rms (duetto_analyzer.py:367-378), pass   *)
(* after pass.  f_in lists what the three checks found in each pass, as    *)
(* the number of hits per vendor; f_out is result.competitor_rms.          *)
(***************************************************************************)
Vendors == {"IDeaS", "Triptease"}

\* sorted(all_vendors)
SortedVendors == <<"IDeaS", "Triptease">>

\* (network_hits.get(vendor, []))[:5]
NetworkEvidenceCap == 5

Min(a, b) == IF a < b THEN a ELSE b

\* the hits of the three checks of one pass
PassHits ==
    [ network : [Vendors -> {0, MaxNetworkHits}],
      dom : [Vendors -> {0, 2}],
      cookie : [Vendors -> {0, 1}] ]

\* the evidence list of one vendor (265-272)
Evidence(hits, vendor) ==
    [i \in 1..Min(hits.network[vendor], NetworkEvidenceCap) |-> <<"network", i>>]
        \o [i \in 1..hits.dom[vendor] |-> <<"dom", i>>]
        \o [i \in 1..hits.cookie[vendor] |-> <<"cookie", i>>]

\* set(network_hits) | set(dom_hits) | set(cookie_hits)
HasHits(hits, vendor) ==
    hits.network[vendor] > 0 \/ hits.dom[vendor] > 0 \/ hits.cookie[vendor] > 0

detect_competitor_rms(hits) ==
    LET found == SelectSeq(SortedVendors, LAMBDA v : HasHits(hits, v))
    IN  [j \in 1..Len(found) |-> [vendor |-> found[j], evidence |-> Evidence(hits, found[j])]]

\* faulty variant: every new entry is appended
AppendAll(existing, new, i) == existing \o new

\* 371-376: the entries of new whose vendor is not listed yet are appended
RECURSIVE AddNewCompetitors(_, _, _)
AddNewCompetitors(existing, new, i) ==
    IF i > Len(new) THEN existing
    ELSE IF \E j \in 1..Len(existing) : existing[j].vendor = new[i].vendor
    THEN AddNewCompetitors(existing, new, i + 1)
    ELSE AddNewCompetitors(Append(existing, new[i]), new, i + 1)

\* one pass of _detect_on_page over the competitor entries; the captured
\* requests only grow, so the network hits of a vendor do not shrink
DetectCompetitors ==
    /\ Len(f_in) < MaxPasses
    /\ \E hits \in PassHits :
          /\ f_in # <<>> =>
                 \A v \in Vendors : hits.network[v] >= f_in[Len(f_in)].network[v]
          /\ f_in' = Append(f_in, hits)
          /\ f_out' = AddNewCompetitors(f_out, detect_competitor_rms(hits), 1)
    /\ UNCHANGED <<result, confVars, cascadeVars, scanVars, runVars>>

InitCompetitors ==
    /\ FnIdle
    /\ result = DefaultResult
    /\ conf_input = DefaultResult
    /\ conf_returned = <<>>
    /\ CascadeIdle
    /\ ScanIdle
    /\ RunIdle

NextCompetitors == DetectCompetitors

SpecCompetitors == InitCompetitors /\ [][NextCompetitors]_vars

(***************************************************************************)
(* Claims about one scan (checked under SpecScan).                         *)
(***************************************************************************)
\* C1: analyze_hotel never raises to its caller, whichever step fails: every
\* scan ends by returning one result record.
C1_AnalyzeNeverRaises == pc # "raised"

PhaseNo(phase) ==
    CASE phase = "homepage" -> 1
      [] phase = "booking_landing" -> 2
      [] phase = "booking_with_dates" -> 3
      [] OTHER -> 0

IsPhaseNav(e) == PhaseNo(e.phase) > 0
PhaseNavs == SelectSeq(nav_log, IsPhaseNav)
IsSuccessfulNav(e) == e.ok
VisitedPhases ==
    LET done == SelectSeq(PhaseNavs, IsSuccessfulNav)
    IN  [i \in 1..Len(done) |-> done[i].phase]

\* C6: the phase navigations of a scan happen in the order homepage, booking
\* landing, booking with dates, each at most once; a booking-landing
\* navigation has a homepage navigation before it and the dated navigation a
\* booking-landing navigation before it; pages_analyzed lists the pages of the
\* phases whose navigation succeeded, in that order, at most three of them.
C6_PhasesInSequence ==
    /\ \A i \in 1..Len(PhaseNavs) : PhaseNavs[i].phase \in
           {"homepage", "booking_landing", "booking_with_dates"}
    /\ \A i, j \in 1..Len(PhaseNavs) :
           i < j => PhaseNo(PhaseNavs[i].phase) < PhaseNo(PhaseNavs[j].phase)
    /\ \A j \in 1..Len(PhaseNavs) :
           PhaseNo(PhaseNavs[j].phase) > 1 =>
               \E i \in 1..(j - 1) :
                   PhaseNo(PhaseNavs[i].phase) = PhaseNo(PhaseNavs[j].phase) - 1
    /\ Len(result.pages_analyzed) <= 3
    /\ \A i, j \in 1..Len(result.pages_analyzed) :
           i < j => PhaseNo(result.pages_analyzed[i]) < PhaseNo(result.pages_analyzed[j])
    /\ \A i \in 1..Len(result.pages_analyzed) :
           \E k \in 1..Len(VisitedPhases) : VisitedPhases[k] = result.pages_analyzed[i]

\* a scan that went through all three phases after following a clicked link
C6_Witness ==
    /\ pc = "returned"
    /\ result.pages_analyzed = <<"homepage", "booking_landing", "booking_with_dates">>
    /\ \E i \in 1..Len(nav_log) : nav_log[i].phase = "follow"

\* C7: a scan of a hotel whose website URL is known returns with the
\* finalization carried through: the confidence was computed from the
\* gathered evidence and duetto_products is not empty.
C7_FinalScoringReached ==
    (pc = "returned" /\ hotel.website_url # "") =>
        /\ result.duetto_products # <<>>
        /\ result.confidence = _calculate_confidence(result)
        /\ \A i \in 1..Len(result.errors) : result.errors[i] # ErrScan

(***************************************************************************)
(* Claims about the coordinators (checked under SpecRun).                  *)
(***************************************************************************)
\* the gather of the scan tasks has returned to the coordinator
GatherOver ==
    \/ mode = "run_batch" /\ b_pc = "returned"
    \/ mode = "_run_job" /\ (b_pc = "marking_done" \/ db_job = "done")

\* C2: the BatchResult run_batch returns has exactly one record per hotel,
\* results[i] for hotels[i]: the scan's own result, or a record with the
\* error text when the scan raised.  A scan that raises takes nothing from
\* the others, in run_batch and in _run_job: when the gather is over every
\* task has ended, every hotel whose turn came was scanned, and what was
\* stored for a hotel is what its own scan gave.
C2_OneRecordPerHotel ==
    /\ (mode = "run_batch" /\ b_pc = "returned") =>
           /\ Len(batch.results) = n_hotels
           /\ batch.scanned = n_hotels
           /\ \A i \in Hotels :
                 /\ batch.results[i].hotel = i
                 /\ scan_out[i].kind = "result" => batch.results[i] = scan_out[i]
                 /\ scan_out[i].kind = "exception" =>
                        batch.results[i].errors = <<scan_out[i].text>>
    /\ GatherOver =>
           \A i \in Hotels :
               /\ t_pc[i] \in {"done", "failed"}
               /\ scan_out[i].kind = "none" =>
                      (mode = "_run_job" /\ saved[i].status = "pending")
               /\ saved[i].status = "done" => saved[i].result_json = scan_out[i]
               /\ saved[i].status = "error" => saved[i].result_json.hotel = i

\* a batch of three came back: the second scan raised, the others did not
C2_Witness ==
    /\ mode = "run_batch"
    /\ b_pc = "returned"
    /\ n_hotels = 3
    /\ scan_out[2].kind = "exception"
    /\ batch.results[2].errors = <<ExcScan>>
    /\ batch.results[1] = Record(1, TRUE, FALSE, <<>>)
    /\ batch.results[3] = Record(3, FALSE, FALSE, <<>>)

Analyzing == {i \in Hotels : t_pc[i] = "analyzing"}

\* C3: at no moment are more scans inside analyze_hotel than the limit the
\* semaphore was created with, in run_batch and in _run_job.
C3_AtMostLimitScans == Cardinality(Analyzing) <= limit

\* three hotels, limit two: two scans run while the third waits for a permit
C3_Witness ==
    /\ n_hotels = 3
    /\ limit = 2
    /\ Cardinality(Analyzing) = 2
    /\ \E i \in Hotels : t_pc[i] = "waiting"
    /\ sem = 0

(***************************************************************************)
(* Claims about the discovery cascade (checked under SpecCascade).         *)
(***************************************************************************)
Found(k) == c_outcome[k].called /\ ~c_outcome[k].raised /\ c_outcome[k].links # <<>>

\* C4: tiers are tried in increasing order only, and when the strategy of
\* tier k returns a non-empty list, that list is what the cascade returns and
\* no strategy of a later tier is called.
C4_ShortCircuit ==
    /\ \A i, j \in 1..Len(c_calls) : i < j => c_calls[i] < c_calls[j]
    /\ \A k \in Tiers :
           Found(k) =>
               /\ c_status = "returned"
               /\ c_links = c_outcome[k].links
               /\ \A j \in Tiers : j > k => ~c_outcome[j].called

\* tiers 1 and 2 came back empty-handed, tier 3 found a link, the rest never ran
C4_Witness ==
    /\ c_status = "returned"
    /\ c_calls = <<1, 2, 3>>
    /\ Found(3)
    /\ c_links = <<WebSearchLink>>

\* C5: no exception of a strategy leaves the cascade; after a tier that
\* raised or found nothing the cascade goes on with the tiers behind it, every
\* enabled tier up to the returning one is attempted, and when no API tier
\* finds a link the in-page tier is called and its list returned.
C5_TiersFailIndependently ==
    /\ c_status # "raised"
    /\ \A k \in 1..5 :
           (c_outcome[k].called /\ ~Found(k)) =>
               \/ c_status = "running" /\ c_tier > k
               \/ c_status = "returned" /\ c_calls[Len(c_calls)] > k
    /\ c_status = "returned" =>
           \A k \in Tiers :
               (TierEnabled(k, c_in) /\ k <= c_calls[Len(c_calls)]) => c_outcome[k].called
    /\ (c_status = "returned" /\ \A k \in 1..5 : ~Found(k)) =>
           /\ c_outcome[6].called
           /\ c_links = c_outcome[6].links

\* tier 2 raised, tier 3 found nothing, and the in-page tier delivered links
C5_Witness ==
    /\ c_status = "returned"
    /\ c_outcome[2].called /\ c_outcome[2].raised
    /\ c_outcome[3].called /\ ~c_outcome[3].raised /\ c_outcome[3].links = <<>>
    /\ c_outcome[6].called
    /\ c_links # <<>>

(***************************************************************************)
(* Claims about the confidence scorer (checked under SpecConfidence).      *)
(***************************************************************************)
HasCspCaveat(r) == \E i \in 1..Len(r.errors) : ContainsCspAllowlist(r.errors[i])

Bit(b) == IF b THEN 1 ELSE 0

RefLevel(score) ==
    IF score >= 4 THEN "high"
    ELSE IF score >= 2 THEN "medium"
    ELSE IF score >= 1 THEN "low"
    ELSE "none"

\* C8: a result whose pixel flag rests only on the CSP-allowlist caveat is
\* never scored "high" and never "none": it is "medium" when its score
\* (1 for the pixel, 3 for the embedded variant, the evidence strings, 1 for
\* a followed link, minus 1 for the recorded error) is at least 2, else "low".
C8_CspOnlyCappedAtMedium ==
    \A i \in 1..Len(conf_returned) :
        HasCspCaveat(conf_input) =>
            LET score == Bit(conf_input.duetto_pixel_detected)
                       + 3 * Bit(conf_input.gamechanger_detected)
                       + Len(conf_input.gamechanger_evidence)
                       + Bit(conf_input.booking_link_followed # <<>>)
                       - 1
            IN  /\ conf_returned[i] \in {"medium", "low"}
                /\ conf_returned[i] = "medium" <=> score >= 2

\* the example of the claim: embedded variant detected, 10 evidence strings,
\* CSP-only caveat, scored "medium"
C8_Witness ==
    /\ Len(conf_returned) >= 1
    /\ HasCspCaveat(conf_input)
    /\ conf_input.gamechanger_detected
    /\ Len(conf_input.gamechanger_evidence) = 10
    /\ result.confidence = "medium"

\* C9: the scorer reads only the result's fields and changes none of them,
\* two calls return the same level, and without the CSP-only caveat the level
\* is the reference scoring: 3 (pixel) + 3 (embedded variant) + number of
\* evidence strings + 1 (link followed) - 1 (any error); >= 4 high,
\* >= 2 medium, >= 1 low, else none.
C9_ReferenceScoring ==
    /\ result = [conf_input EXCEPT !.confidence = result.confidence]
    /\ \A i \in 1..Len(conf_returned) :
          /\ conf_returned[i] = conf_returned[1]
          /\ ~HasCspCaveat(conf_input) =>
                conf_returned[i] =
                    RefLevel(  3 * Bit(conf_input.duetto_pixel_detected)
                             + 3 * Bit(conf_input.gamechanger_detected)
                             + Len(conf_input.gamechanger_evidence)
                             + Bit(conf_input.booking_link_followed # <<>>)
                             - Bit(conf_input.errors # <<>>))
    /\ Len(conf_returned) >= 1 => result.confidence = conf_returned[Len(conf_returned)]

\* scored twice, no caveat, an error recorded, and still "high"
C9_Witness ==
    /\ Len(conf_returned) = 2
    /\ ~HasCspCaveat(conf_input)
    /\ conf_input.errors # <<>>
    /\ conf_input.booking_link_followed # <<>>
    /\ conf_input.duetto_pixel_detected
    /\ ~conf_input.gamechanger_detected
    /\ Len(conf_input.gamechanger_evidence) = 1
    /\ result.confidence = "high"

\* C10: the evidence term counts distinct evidence strings, so a string
\* collected twice adds to the score once.
C10_EvidenceCountedOnce ==
    \A i \in 1..Len(conf_returned) :
        ~HasCspCaveat(conf_input) =>
            conf_returned[i] =
                RefLevel(  3 * Bit(conf_input.duetto_pixel_detected)
                         + 3 * Bit(conf_input.gamechanger_detected)
                         + Cardinality(Range(conf_input.gamechanger_evidence))
                         + Bit(conf_input.booking_link_followed # <<>>)
                         - Bit(conf_input.errors # <<>>))

(***************************************************************************)
(* Claims about the network monitor (checked under SpecMonitor).           *)
(***************************************************************************)
PixelUrlCaptured ==
    \E i \in 1..Len(monitor.all_requests) :
        \E p \in DUETTO_PIXEL_PATTERNS : Contains(Lower(monitor.all_requests[i]), p)

GamechangerUrlCaptured ==
    \E i \in 1..Len(monitor.all_requests) :
        \E p \in GAMECHANGER_PATTERNS : Contains(Lower(monitor.all_requests[i]), p)

\* C11: duetto_pixel_detected is true exactly when some captured request URL
\* contains, in any letter case, one of the pixel-endpoint substrings, and
\* once true it stays true.
C11_PixelFlag ==
    /\ [](duetto_pixel_detected(monitor) <=> PixelUrlCaptured)
    /\ [][duetto_pixel_detected(monitor) => duetto_pixel_detected(monitor')]_vars

\* the request to capture.duettoresearch.com/track?x=1 was captured, another
\* request followed, and the flag is up
C11_Witness ==
    /\ pc = "monitoring"
    /\ monitor.all_requests = <<UrlPixel, UrlHotel>>
    /\ duetto_pixel_detected(monitor)

\* C12: gamechanger_in_network is true exactly when some URL of all_requests
\* contains, in any letter case, one of the GAMECHANGER_PATTERNS substrings.
C12_GamechangerFlag == gamechanger_in_network(monitor) <=> GamechangerUrlCaptured

IsPrefix(s, t) == Len(s) <= Len(t) /\ SubSeq(t, 1, Len(s)) = s

\* s can be got from t by leaving entries out
RECURSIVE IsSubSeq(_, _)
IsSubSeq(s, t) ==
    IF s = <<>> THEN TRUE
    ELSE IF t = <<>> THEN FALSE
    ELSE IF Head(s) = Head(t) THEN IsSubSeq(Tail(s), Tail(t))
    ELSE IsSubSeq(s, Tail(t))

\* C16: the capture logs only grow: a call of the request listener appends
\* one entry to all_requests, every step leaves the entries already in
\* all_requests, duetto_requests and console_logs where they are, and
\* duetto_requests is a sub-sequence of all_requests.
C16_LogsOnlyGrow ==
    /\ [] IsSubSeq(monitor.duetto_requests, monitor.all_requests)
    /\ [][ /\ IsPrefix(monitor.all_requests, monitor'.all_requests)
           /\ IsPrefix(monitor.duetto_requests, monitor'.duetto_requests)
           /\ IsPrefix(monitor.console_logs, monitor'.console_logs)
           /\ RequestEvent =>
                  Len(monitor'.all_requests) = Len(monitor.all_requests) + 1 ]_vars

\* two requests, one of them to a Duetto domain, and a console message
C16_Witness ==
    /\ pc = "monitoring"
    /\ Len(monitor.all_requests) = 2
    /\ monitor.duetto_requests = <<UrlGcApp>>
    /\ Len(monitor.console_logs) = 1


(***************************************************************************)
(* More claims about one scan (checked under SpecScan).                    *)
(***************************************************************************)
\* how often a URL stands in a list of URLs
Occurrences(urls, url) == Cardinality({i \in 1..Len(urls) : urls[i] = url})

\* C17: every page of the context has the monitor's listeners, and every
\* request a page has issued is in all_requests.
C17_NoRequestMissed ==
    /\ \A i \in 1..Len(pages) : pages[i].listeners >= 1
    /\ \A i \in 1..Len(issued) :
           Occurrences(monitor.all_requests, issued[i]) >= Occurrences(issued, issued[i])

\* a navigation of a phase was tried in this step, and failed
PhaseNavFailed(phase) ==
    /\ Len(nav_log') = Len(nav_log) + 1
    /\ nav_log'[Len(nav_log')] = Nav(phase, FALSE)

\* C19: a failed navigation adds an error string and the scan goes on to
\* the next phase: after a failed homepage navigation to discovery (or to
\* the booking phase when a booking URL is known), after a failed
\* booking-landing navigation to the dated navigation.
C19_ScanContinuesAfterFailure ==
    [][ /\ \A phase \in {"homepage", "booking_landing", "booking_with_dates"} :
               PhaseNavFailed(phase) => Len(result'.errors) = Len(result.errors) + 1
        /\ PhaseNavFailed("homepage") =>
               pc' = IF booking_url = "" THEN "discover" ELSE "phase2"
        /\ PhaseNavFailed("booking_landing") => pc' = "phase3_nav" ]_vars

(***************************************************************************)
(* More claims about the discovery cascade (checked under SpecCascade).    *)
(***************************************************************************)
KeyMissing == c_in.firecrawl_api_key = "" \/ c_in.anthropic_api_key = ""

\* C20: without the anthropic key the AI-query strategy is never called;
\* with either key missing the smart-scrape, web-search and brand-crawl
\* strategies are never called; no error leaves the cascade, which goes on
\* with the tiers that need no key: the chain-pattern strategy is called
\* when a hotel name is given, and unless a called tier found a link the
\* in-page tier is called and its list is what the cascade returns.
C20_MissingKeysSkipTiers ==
    /\ c_in.anthropic_api_key = "" => ~c_outcome[1].called
    /\ KeyMissing =>
           /\ \A k \in 2..4 : ~c_outcome[k].called
           /\ c_status # "raised"
           /\ (c_status = "returned" /\ ~Found(1)) =>
                  /\ c_in.hotel_name # "" => c_outcome[5].called
                  /\ ~Found(5) => c_outcome[6].called /\ c_links = c_outcome[6].links

\* no key at all: only the chain-pattern and the in-page tier were called
C20_Witness ==
    /\ c_in.anthropic_api_key = "" /\ c_in.firecrawl_api_key = ""
    /\ c_in.city # "" /\ c_in.hotel_name # ""
    /\ c_status = "returned"
    /\ c_calls = <<5, 6>>

(***************************************************************************)
(* Claims about result.competitor_rms (checked under SpecCompetitors).     *)
(***************************************************************************)
\* the first pass in which a check found the vendor
CreatingPass(vendor) ==
    CHOOSE p \in 1..Len(f_in) :
        /\ HasHits(f_in[p], vendor)
        /\ \A q \in 1..(p - 1) : ~HasHits(f_in[q], vendor)

KindCount(evidence, kind) == Cardinality({i \in 1..Len(evidence) : evidence[i][1] = kind})

\* C18: competitor_rms has at most one entry per vendor, and each entry has
\* at most 5 network evidence strings and every DOM and cookie hit of the
\* pass that created it.
C18_OneEntryPerVendor ==
    /\ \A i, j \in 1..Len(f_out) : f_out[i].vendor = f_out[j].vendor => i = j
    /\ \A i \in 1..Len(f_out) :
           LET e == f_out[i]
               hits == f_in[CreatingPass(e.vendor)]
           IN  /\ KindCount(e.evidence, "network") <= 5
               /\ KindCount(e.evidence, "network") = Min(hits.network[e.vendor], 5)
               /\ KindCount(e.evidence, "dom") = hits.dom[e.vendor]
               /\ KindCount(e.evidence, "cookie") = hits.cookie[e.vendor]

C18_Witness ==
    /\ Len(f_in) = 2
    /\ f_in[1].network["IDeaS"] = 6 /\ f_in[1].dom["IDeaS"] = 2 /\ f_in[1].cookie["IDeaS"] = 0
    /\ ~HasHits(f_in[1], "Triptease")
    /\ f_in[2].cookie["IDeaS"] = 1 /\ f_in[2].dom["Triptease"] = 2
    /\ Len(f_out) = 2
    /\ Len(f_out[1].evidence) = 7

(***************************************************************************)
(* Claims about _inject_dates_into_url (checked under SpecInject).         *)
(***************************************************************************)
SynxisNames == {"arrive", "depart", "adult", "rooms"}

SynxisDefault(k) ==
    CASE k = "arrive" -> Checkin
      [] k = "depart" -> Checkout
      [] k = "adult" -> "2"
      [] OTHER -> "1"

\* the places of the parameter k in a query
Places(query, k) == {j \in 1..Len(query) : query[j][1] = k}

First(places) == CHOOSE j \in places : \A i \in places : j <= i

\* the function has been applied to a SynXis URL
InjectedSynxis == f_out # <<>> /\ f_in.scheme # "" /\ Vendor(f_in) = "synxis"

EachOnce == \A k \in SynxisNames : Cardinality(Places(f_out[1].query, k)) = 1

Idempotent == Len(f_out) = 2 => f_out[2] = f_out[1]

\* C13 as stated: on a SynXis URL the result has arrive, depart, adult and
\* rooms exactly once each, a parameter that was in the URL has the value it
\* had there, and applying the function to its result changes nothing.
C13_PresentKeepsValue ==
    InjectedSynxis =>
        /\ EachOnce
        /\ \A k \in SynxisNames :
               LET was == Places(f_in.query, k)
                   now == Places(f_out[1].query, k)
               IN  IF was = {}
                   THEN \A j \in now : f_out[1].query[j][2] = SynxisDefault(k)
                   ELSE \A j \in now : Unquote(f_out[1].query[j][2]) =
                                           Unquote(f_in.query[First(was)][2])
        /\ Idempotent

\* C13 amended: on a SynXis URL the result has arrive, depart, adult and
\* rooms exactly once each; a parameter that was in the URL with a non-empty
\* value has the first such value, any other has its default (today + 14,
\* today + 15, 2, 1); applying the function to its result changes nothing.
C13_InjectSynxis ==
    InjectedSynxis =>
        /\ EachOnce
        /\ \A k \in SynxisNames :
               LET was == {j \in Places(f_in.query, k) : f_in.query[j][2] # ""}
                   now == Places(f_out[1].query, k)
               IN  IF was = {}
                   THEN \A j \in now : f_out[1].query[j][2] = SynxisDefault(k)
                   ELSE \A j \in now : Unquote(f_out[1].query[j][2]) =
                                           Unquote(f_in.query[First(was)][2])
        /\ Idempotent

C13_Witness ==
    /\ f_in = Url("https", "Be.SynXis.com", "/", << <<"arrive", "a%20b">>, <<"arrive", "123">> >>)
    /\ Len(f_out) = 2
    /\ f_out[1].query = << <<"arrive", "a+b">>, <<"depart", Checkout>>, <<"adult", "2">>,
                           <<"rooms", "1">> >>


(***************************************************************************)
(* Claims about the candidates a tier returns (checked under SpecTiers).   *)
(***************************************************************************)
\* the registrable domain is one of the listed OTA or meta-search domains
\* (the host name is the netloc without its port)
HostName(netloc) == IF netloc = "www.booking.com:443" THEN "www.booking.com" ELSE netloc

RegistrableDomain(url) == Text(LastTwoLabels(Chars(LowerHost(HostName(url.host)))))

IsOta(url) ==
    /\ url.host # ""
    /\ RegistrableDomain(url) \in OTA_DOMAINS \cup WebSearchOtaDomains

\* C14: no tier returns a candidate whose registrable domain is an OTA or
\* meta-search domain.
C14_NoOtaReturned ==
    f_out # <<>> => \A j \in 1..Len(f_out[1]) : ~IsOta(f_out[1][j].href)


(***************************************************************************)
(* Claims about rank_booking_links (checked under SpecRank).               *)
(***************************************************************************)
\* the one-to-one maps of the places of the output onto those of the input
Arrangements(n) ==
    {pi \in [1..n -> 1..n] : \A i, j \in 1..n : i # j => pi[i] # pi[j]}

\* C15: the ranked list is a rearrangement of the given list, its scores do
\* not increase from one place to the next, and links of equal score stand
\* in the order in which they were given.
C15_RankStable ==
    (f_out # <<>>) =>
        LET out == f_out[1]
            n == Len(f_in)
        IN  /\ Len(out) = n
            /\ \A i \in 1..(n - 1) : link_score(out[i]) >= link_score(out[i + 1])
            /\ \E pi \in Arrangements(n) :
                   /\ \A i \in 1..n : out[i] = f_in[pi[i]]
                   /\ \A i, j \in 1..n :
                          (i < j /\ link_score(out[i]) = link_score(out[j])) => pi[i] < pi[j]

C15_Witness ==
    /\ f_in = <<SmartLink2, TextButton, SmartLink>>
    /\ f_out = << <<SmartLink, SmartLink2, TextButton>> >>


\* the model was asked and answered with an http(s) URL that is not an OTA's
\* and with a confidence other than "none"
AiAnswerUsable ==
    /\ f_in.city # "" /\ f_in.key # ""
    /\ f_in.reply = "ok" /\ f_in.answers # <<>>
    /\ f_in.answers[1].url.scheme # ""
    /\ ~IsOta(f_in.answers[1].url)
    /\ f_in.answers[1].confidence # "none"

\* C21: find_booking_link_via_ai returns one candidate with method
\* "ai_query" and the model's URL when the city is known and the model
\* answers with a non-OTA http(s) URL and a confidence other than "none";
\* in every other case it returns the empty list.
C21_AiQueryContract ==
    (f_in.tier = 1 /\ f_out # <<>>) =>
        IF AiAnswerUsable
        THEN f_out[1] = << Link("AI-suggested booking link", f_in.answers[1].url, "link",
                                "ai_query", "new_tab") >>
        ELSE f_out[1] = <<>>


(***************************************************************************)
(* Claims about extract_base_domain and the chain pattern tier (checked    *)
(* under SpecDomain).                                                      *)
(***************************************************************************)
\* the last two labels of the host name of the website
LastTwoOfHost == Text(LastTwoLabels(Chars(LowerHost(f_in.host))))

HasTwoLabels == \E i \in 1..Len(Chars(f_in.host)) : Chars(f_in.host)[i] = "."

\* C22: for a URL or host name with at least two labels extract_base_domain
\* returns the last two labels of the host name, with or without a leading
\* "www." and whatever letter the domain starts with.
C22_LastTwoLabels ==
    \A i \in 1..Len(f_out) :
        (f_out[i].fn = "extract_base_domain" /\ HasTwoLabels) => f_out[i].value = LastTwoOfHost

\* C23: for a website on a brand domain D of CHAIN_BOOKING_PATTERNS (D
\* itself, www.D or a subdomain of D) the chain pattern tier returns exactly
\* one candidate with method "chain_pattern" and D's url_template as href;
\* for a website on any other registrable domain it returns the empty list.
C23_ChainPatternByDomain ==
    \A i \in 1..Len(f_out) :
        f_out[i].fn = "find_booking_links_chain_pattern" =>
            IF HasTwoLabels /\ LastTwoOfHost \in DOMAIN CHAIN_BOOKING_PATTERNS
            THEN /\ Len(f_out[i].value) = 1
                 /\ f_out[i].value[1].detection_method = "chain_pattern"
                 /\ f_out[i].value[1].href = CHAIN_BOOKING_PATTERNS[LastTwoOfHost].url_template
            ELSE f_out[i].value = <<>>


(***************************************************************************)
(* Claims about the shared browser session and the batch's counts (checked *)
(* under SpecRun).                                                         *)
(***************************************************************************)
\* run_batch or _run_job is over
CoordinatorEnded == b_pc \in {"returned", "raised"}

AllTasksEnded == \A i \in Hotels : t_pc[i] \in {"done", "failed"}

\* C24: the shared browser session is released exactly once, only after
\* every scan task has ended, and on every exit path, a failure while the
\* session is being opened included: once the coordinator is over and
\* something of the session was started, __aexit__ has run once and neither
\* the browser nor the driver is still running.
C24_SessionReleasedOnce ==
    /\ [](( CoordinatorEnded /\ session # NoSession ) =>
            /\ session.exits = 1
            /\ session.browser # "running"
            /\ session.playwright # "running")
    /\ [][session'.exits # session.exits => AllTasksEnded]_vars

\* C25: the counts of the BatchResult run_batch returns agree with its
\* results: scanned is the number of hotels, duetto_pixel_count the number
\* of results with the pixel detected, gamechanger_count the number with
\* the embedded variant, competitor_rms_count the number of results with at
\* least one competitor vendor.
C25_CountsMatchResults ==
    (mode = "run_batch" /\ b_pc = "returned") =>
        /\ batch.scanned = n_hotels
        /\ batch.duetto_pixel_count =
               Cardinality({i \in Hotels : batch.results[i].duetto_pixel_detected})
        /\ batch.gamechanger_count =
               Cardinality({i \in Hotels : batch.results[i].gamechanger_detected})
        /\ batch.competitor_rms_count =
               Cardinality({i \in Hotels : batch.results[i].competitor_rms # <<>>})


(***************************************************************************)
(* Claims about dismiss_cookie_consent (checked under SpecConsent).        *)
(***************************************************************************)
\* the selectors whose click went through
ClickedSelectors ==
    {f_in[k].index : k \in {j \in 1..Len(f_in) : f_in[j].op = "click" /\ f_in[j].outcome = "ok"}}

SeenVisible == \E k \in 1..Len(f_in) : f_in[k].outcome = "visible"

\* the probes were made in list order, one selector after the other
ProbedInListOrder ==
    LET probes == SelectSeq(f_in, LAMBDA c : c.op = "is_visible")
    IN  \A k \in 1..Len(probes) : probes[k].index = k

\* C26: dismiss_cookie_consent never raises, whatever the page does on a
\* probe, a click or a wait; it tries the selectors in list order, performs
\* at most one successful click, returns true exactly when some visible
\* candidate was clicked successfully, and returns false when no candidate
\* is visible.
C26_ConsentContract ==
    /\ ProbedInListOrder
    /\ Cardinality(ClickedSelectors) <= 1
    /\ f_out # <<>> =>
          /\ f_out[1] \in BOOLEAN
          /\ f_out[1] <=> (ClickedSelectors # {})
          /\ ~SeenVisible => ~f_out[1]


(***************************************************************************)
(* Claim about the booking link a scan followed (checked under SpecScan).  *)
(***************************************************************************)
\* the scan got somewhere through its booking link: the click-based follow
\* navigated, or the booking-landing navigation succeeded
BookingLinkReached ==
    \E k \in 1..Len(nav_log) :
        nav_log[k].phase \in {"follow", "booking_landing"} /\ nav_log[k].ok

\* the scan tried its booking link and never got anywhere through it: the
\* booking-landing navigation failed on both wait strategies, or the page
\* opened for the click-based follow could not be loaded
BookingLinkUnreached ==
    /\ ~BookingLinkReached
    /\ \E k \in 1..Len(nav_log) :
           nav_log[k].phase \in {"follow", "booking_landing"} /\ ~nav_log[k].ok

\* the term of _calculate_confidence for a followed booking link (788-789)
FollowedTerm(r) == IF r.booking_link_followed # <<>> THEN 1 ELSE 0

\* C27: the +1 "booking link followed" term is earned only by scans in
\* which a booking link was successfully followed: a scan whose booking link
\* could not be reached ends with booking_link_followed unset and without
\* the +1.
C27_FollowedOnlyWhenReached ==
    (pc = "returned" /\ BookingLinkUnreached) =>
        /\ result.booking_link_followed = <<>>
        /\ FollowedTerm(result) = 0


(***************************************************************************)
(* Claim about the URL bonus of the ranking (checked under SpecRank).      *)
(***************************************************************************)
\* two candidates that differ in their href only
SameButHref(a, b) == a.href # b.href /\ [a EXCEPT !.href = ""] = [b EXCEPT !.href = ""]

\* C28: the URL bonus goes exactly to the candidates with an absolute URL:
\* an empty href, "#", a relative path or a javascript: pseudo-URL earns
\* nothing, so of two candidates equal in everything else the one with the
\* absolute http(s) href scores higher and is ranked first.
C28_AbsoluteUrlRanksFirst ==
    f_out # <<>> =>
        \A i, j \in 1..Len(f_out[1]) :
            ( /\ SameButHref(f_out[1][i], f_out[1][j])
              /\ StartsWithHttp(f_out[1][i].href)
              /\ ~StartsWithHttp(f_out[1][j].href) ) =>
                /\ link_score(f_out[1][i]) > link_score(f_out[1][j])
                /\ i < j


(***************************************************************************)
(* Claim about the generic branch of _inject_dates_into_url (checked under *)
(* SpecInject).                                                            *)
(***************************************************************************)
GenericDefaults == {"checkin", "checkout", "adults"}

GenericDefault(k) ==
    CASE k = "checkin" -> Checkin
      [] k = "checkout" -> Checkout
      [] OTHER -> "2"

\* a recognizable date parameter, in whatever case its name is written
IsDateName(k) == k \in DateNames \cup {"CheckIn", "Arrive"}

HasDateParam(query) == \E j \in 1..Len(query) : IsDateName(query[j][1])

HasValuedDateParam(query) ==
    \E j \in 1..Len(query) : IsDateName(query[j][1]) /\ query[j][2] # ""

\* the places of f_in's query where parameter k has a non-empty value
Valued(k) == {j \in Places(f_in.query, k) : f_in.query[j][2] # ""}

\* no vendor word in the host of the URL
HostMatchesNoVendor == HostWords(LowerHost(f_in.host)) = {}

KeptOnce(k) ==
    /\ Cardinality(Places(f_out[1].query, k)) = 1
    /\ \A j \in Places(f_out[1].query, k) :
           Unquote(f_out[1].query[j][2]) = Unquote(f_in.query[First(Valued(k))][2])

ContributedBy(p) ==
    {j \in 1..Len(f_out[1]) :
        \E k \in 1..Len(f_in.page) :
            /\ f_in.page[k].pattern = p
            /\ f_in.page[k].text = f_out[1][j].text
            /\ f_in.page[k].href = f_out[1][j].href}

\* C30: in the text pass each booking-intent pattern contributes at most 5
\* candidates in total, however many visible links and buttons match it.
C30_FivePerPattern ==
    f_out # <<>> =>
        \A n \in 1..Len(TextPatterns) :
            Cardinality(ContributedBy(TextPatterns[n])) <= PerPatternCap


(***************************************************************************)
(* Claim about the brand-site crawl tier (checked under SpecCascade).      *)
(***************************************************************************)
\* the registrable domain of the hotel's website is one of the brand
\* domains of CHAIN_BOOKING_PATTERNS
KnownBrand == RegistrableDomain(c_in.url) \in DOMAIN CHAIN_BOOKING_PATTERNS

\* C31: the brand-site crawl tier is attempted only for recognized brand
\* domains: for a hotel whose registrable domain is not a known brand the
\* cascade never calls find_booking_links_brand_crawl.
C31_BrandCrawlOnlyForBrands == ~KnownBrand => ~c_outcome[4].called


(***************************************************************************)
(* Claim about the embedded-variant flag of a scan (checked under          *)
(* SpecScan).                                                              *)
(***************************************************************************)
\* a pass of the scan found a DOM signal, a reference in the page source
DomSignalFound == EvWindowDuetto \in Range(result.gamechanger_evidence)
SourceSignalFound == EvInlineScript \in Range(result.gamechanger_evidence)

\* C32: the embedded-variant flag is the disjunction of its three signal
\* sources and all evidence is retained: at the end of a scan
\* gamechanger_detected is true if the DOM inspection of a phase found a
\* signal or the source scan of a phase found the vendor's domain, the
\* finalization sets it when a captured URL matched the network signature,
\* and from the first pass on the flag is never cleared and no evidence
\* string is removed.
C32_FlagIsDisjunction ==
    /\ [](pc = "returned" =>
            /\ DomSignalFound => result.gamechanger_detected
            /\ SourceSignalFound => result.gamechanger_detected)
    /\ [][ /\ (pc = "finalize" /\ gamechanger_in_network(monitor)) =>
                  result'.gamechanger_detected
           /\ pc # "start" =>
                  /\ result.gamechanger_detected => result'.gamechanger_detected
                  /\ IsPrefix(result.gamechanger_evidence, result'.gamechanger_evidence) ]_vars


(***************************************************************************)
(* Claims about the job registry (checked under SpecRegistry).             *)
(***************************************************************************)
\* the tasks whose done callback has not run yet
Unfinished == {t \in DOMAIN created : created[t].state # "called_back"}

\* this step is a call of launch_job for a job id that is in the registry
LaunchOfRegistered == f_in' # f_in /\ f_in'[Len(f_in')] \in DOMAIN _tasks

\* this step is the completion of task t: its done callback runs
Completes(t) ==
    /\ t \in DOMAIN created
    /\ created[t].state = "finished"
    /\ created'[t].state = "called_back"

\* C33: _tasks holds exactly the jobs whose task has not finished (a task has
\* finished for the registry once the loop has run its done callback): every
\* entry is the unfinished task of its job id, every unfinished task is
\* registered, no job id has two unfinished tasks; launch_job for a job id in
\* the registry creates no task and leaves the registry as it is; and the
\* completion of a task, returned or raised, removes the entry of its job.
C33_RegistryHoldsUnfinishedJobs ==
    /\ [](/\ \A j \in DOMAIN _tasks :
                /\ _tasks[j] \in Unfinished
                /\ created[_tasks[j]].job_id = j
          /\ \A t \in Unfinished :
                /\ created[t].job_id \in DOMAIN _tasks
                /\ _tasks[created[t].job_id] = t
          /\ \A t, u \in Unfinished : created[t].job_id = created[u].job_id => t = u)
    /\ [][/\ LaunchOfRegistered => UNCHANGED <<_tasks, created>>
          /\ \A t \in 1..MaxLaunches :
                Completes(t) => created[t].job_id \notin DOMAIN _tasks']_vars

\* a job was launched, launched again while registered (no second task), its
\* task raised and was removed, and the job id was launched once more
C33_Witness ==
    /\ Len(f_in) = 3
    /\ Len(created) = 2
    /\ created[1].job_id = created[2].job_id
    /\ created[1].state = "called_back"
    /\ created[1].raised
    /\ created[2].state = "running"
    /\ DOMAIN _tasks = {created[2].job_id}
    /\ _tasks[created[2].job_id] = 2


ResultEvents(i) == {k \in 1..Len(f_out) : f_out[k] = Event("result", i)}

\* C35: the stream never yields a second "result" event for a hotel; when it
\* has closed after a finished job, every hotel whose row is done or error
\* has had exactly one; and the "done" event, once yielded, is the last event.
C35_OneResultEventPerHotel ==
    /\ \A i \in Hotels : Cardinality(ResultEvents(i)) <= 1
    /\ (f_in.at = "closed" /\ f_in.job = "done") =>
           \A i \in Hotels :
               saved[i].status \in {"done", "error"} => Cardinality(ResultEvents(i)) = 1
    /\ \A k \in 1..Len(f_out) : f_out[k].type = "done" => k = Len(f_out)


(***************************************************************************)
(* More claims about the coordinators (checked under SpecRun).             *)
(***************************************************************************)
\* jobs.scanned_count: save_hotel_result and save_hotel_error add one to it
\* in the transaction that stores the hotel's row (db.py:120-133, 139-148)
scanned_count == Cardinality({i \in Hotels : saved[i].status \in {"done", "error"}})

\* C36: when the job's status is 'done', every hotel of the job has status
\* 'done' or 'error' with a stored result record, and scanned_count equals
\* the number of hotels.
C36_DoneJobHasEveryResult ==
    db_job = "done" =>
        /\ \A i \in Hotels :
              /\ saved[i].status \in {"done", "error"}
              /\ saved[i].result_json.kind = "result"
        /\ scanned_count = n_hotels


\* C37: whenever discovery produced candidates, the link followed is one of
\* booking_links_found, none of them has a higher ranking score, and every
\* candidate discovered before it has a lower one.
C37_FollowedIsBestCandidate ==
    result.booking_links_found # <<>> =>
        /\ result.booking_link_followed # <<>>
        /\ LET found == result.booking_links_found
               followed == result.booking_link_followed[1]
           IN  \E k \in 1..Len(found) :
                  /\ found[k] = followed
                  /\ \A j \in 1..Len(found) : link_score(found[j]) <= link_score(followed)
                  /\ \A j \in 1..(k - 1) : link_score(found[j]) < link_score(followed)

\* a scan that returned after discovery gave three candidates: the first
\* scores lower, the second and third share the highest score, the second
\* was followed
C37_Witness ==
    /\ pc = "returned"
    /\ result.booking_links_found = <<SmartLink2, SmartLink, SmartLink3>>
    /\ link_score(SmartLink2) < link_score(SmartLink)
    /\ link_score(SmartLink3) = link_score(SmartLink)
    /\ result.booking_link_followed = <<SmartLink>>


\* analyze_hotel is over: it returned or an exception left it
ScanOver == pc \in {"returned", "raised"}

\* C38: when analyze_hotel is over, the context it created is closed and
\* scan_duration_seconds is set; the context is closed once, by the finally
\* block, and a closed context stays closed; the early return for an unknown
\* website URL creates no context.
C38_ContextClosedOnEveryPath ==
    /\ []((ScanOver /\ context # "none") =>
              /\ context = "closed"
              /\ result.scan_duration_set)
    /\ []((ScanOver /\ hotel.website_url = "") => context = "none")
    /\ [][/\ (context # "closed" /\ context' = "closed") => (pc = "close" /\ context = "open")
          /\ context = "closed" => context' = "closed"]_vars


(***************************************************************************)
(* Claims about the life of a job (checked under SpecRunFair).             *)
(***************************************************************************)
StatusMoves == {<<"pending", "running">>, <<"running", "done">>, <<"running", "failed">>,
                <<"pending", "failed">>}

\* C39: every launched job eventually has a terminal status and is out of
\* the registry; its status moves only along pending -> running -> done or
\* failed; it is not marked done before every scan task has ended; and a job
\* marked done is not marked failed afterwards.
C39_JobReachesTerminalStatus ==
    /\ (mode = "_run_job") ~> (db_job \in {"done", "failed"} /\ Job \notin DOMAIN _tasks)
    /\ [][db_job' # db_job => <<db_job, db_job'>> \in StatusMoves]_vars
    /\ [](db_job = "done" => AllTasksEnded)
    /\ [][db_job = "done" => db_job' = "done"]_vars

=============================================================================
